---- MODULE Spec2Model ----
(***************************************************************************)
(* Verification model of the small-render farm coordinator.                *)
(*                                                                         *)
(* Spec      the coordinator's DispatchManager (scheduler) driven by the   *)
(*           main loop, with the workers, the job snapshot and the node    *)
(*           snapshot as its environment.                                  *)
(***************************************************************************)
EXTENDS Integers, Sequences, FiniteSets, TLC

\* ------------------------------------------------------------------------
\* Bounds of the model
\* ------------------------------------------------------------------------
MaxRetryCount == 2       \* retry_count is capped in the guards
MaxNow == 120000         \* the wall clock stops here
MaxRestarts == 1         \* farm stops and process restarts per behaviour
MaxDispatches == 4       \* assignments handed out per behaviour
MaxFrame == 4            \* frame numbers of the computeChunks inputs checked
MaxChunkSize == 3        \* chunk sizes of the computeChunks inputs checked
MaxControls == 2         \* manual controls (pause, cancel, resume, reassign,
                         \* retry, stop/start node) per behaviour
MaxSeq == 2              \* heartbeat seq of one farm run stops here
MaxStaleCount == 4       \* staleCount is capped in the guards
MaxSends == 2            \* sendCommand calls per behaviour
MaxClock == 1            \* system_clock stops here
MaxPolls == 2            \* pollInbox runs per node and behaviour
MaxEnqueued == 2         \* Actions enqueued for one command, capped in the guards
EpochMs == 10            \* system_clock when the jobs were submitted
MaxSubmits == 3          \* submitJob calls per behaviour
SlugTries == 2           \* candidates generateSlug tries (99 in the code)
MaxEventSeq == 4         \* m_eventSeq, capped in the guards
MaxCommands == 6         \* sendCommand calls per behaviour of SpecNode
MaxSubPolls == 7         \* polls of the submission inbox
MaxTasks == 3            \* tasks sent to the renderer per behaviour
MaxArrivals == 2         \* batches of commands a worker of SpecAgent is sent

\* ------------------------------------------------------------------------
\* The farm of the model
\* ------------------------------------------------------------------------
Self == "c0"                         \* m_nodeId of the coordinator
Workers == {"w1"}
Nodes == {Self} \cup Workers
NodeOrder == <<"c0", "w1">>          \* iteration order of the node snapshot
Jobs == {"j1", "j2"}
TickMs == 60000                      \* one step of the wall clock

HeartbeatIntervalMs == 5000          \* TimingConfig::heartbeat_interval_ms
DeadThresholdScans == 3              \* TimingConfig::dead_threshold_scans
MinStaleMs == 60000                  \* floor of the stale-assignment timeout
DefaultMaxRetries == 3               \* maxRetries when the job is not found
WRITE_THROTTLE_MS == 2000            \* DispatchManager::WRITE_THROTTLE_MS

Min(a, b) == IF a < b THEN a ELSE b
Max(a, b) == IF a > b THEN a ELSE b
SetMin(S) == CHOOSE x \in S : \A y \in S : x <= y

MapPut(f, k, v) == [x \in (DOMAIN f) \cup {k} |-> IF x = k THEN v ELSE f[x]]
MapErase(f, k) == [x \in (DOMAIN f) \ {k} |-> f[x]]
EmptyMap == [x \in {} |-> 0]

\* ------------------------------------------------------------------------
\* core/job_types.h
\* ------------------------------------------------------------------------
RECURSIVE ChunkLoop(_, _, _, _)
ChunkLoop(f, frame_end, chunk_size, chunks) ==
    IF f <= frame_end
    THEN ChunkLoop(f + chunk_size, frame_end, chunk_size,
                   Append(chunks, [frame_start |-> f,
                                   frame_end |-> Min(f + chunk_size - 1, frame_end)]))
    ELSE chunks

\* computeChunks without the clamp of the last chunk to frame_end.
RECURSIVE ChunkLoopNoClamp(_, _, _, _)
ChunkLoopNoClamp(f, frame_end, chunk_size, chunks) ==
    IF f <= frame_end
    THEN ChunkLoopNoClamp(f + chunk_size, frame_end, chunk_size,
                          Append(chunks, [frame_start |-> f,
                                          frame_end |-> f + chunk_size - 1]))
    ELSE chunks

computeChunks_NoClamp(frame_start, frame_end, chunk_size) ==
    IF chunk_size <= 0 \/ frame_start > frame_end
    THEN << >>
    ELSE ChunkLoopNoClamp(frame_start, frame_end, chunk_size, << >>)

computeChunks(frame_start, frame_end, chunk_size) ==
    IF chunk_size <= 0 \/ frame_start > frame_end
    THEN << >>
    ELSE ChunkLoop(frame_start, frame_end, chunk_size, << >>)

\* A freshly constructed DispatchChunk for a range.
DispatchChunk(cr) ==
    [frame_start |-> cr.frame_start, frame_end |-> cr.frame_end,
     state |-> "pending", assigned_to |-> "", assigned_at_ms |-> 0,
     retry_count |-> 0]

\* A manifest.json: cmd holds the OS names that have a non-empty command.
Manifest(fs, fe, cs, mr) ==
    [frame_start |-> fs, frame_end |-> fe, chunk_size |-> cs, max_retries |-> mr,
     cmd |-> {"windows", "linux"}, tags_required |-> {}]

\* The job directories the farm can hold when the coordinator starts: a job
\* of two chunks with a short last chunk, a job with an empty frame range,
\* one-chunk jobs that allow no retry or two; or two jobs of one chunk each.
OneJobFarms ==
    { "j1" :> Manifest(1, 3, 2, 1),
      "j1" :> Manifest(2, 1, 1, 1),
      "j1" :> Manifest(4, 4, 1, 0),
      "j1" :> Manifest(4, 4, 1, 2) }

TwoJobFarms ==
    { ("j1" :> Manifest(1, 1, 1, 1)) @@ ("j2" :> Manifest(7, 9, 3, 1)) }

\* submitted_at_ms orders the jobs of one priority; os and tags are what each
\* node's heartbeat carries.
JobSubmittedAtMs == [j \in Jobs |-> IF j = "j1" THEN 1 ELSE 2]
HeartbeatOS == [n \in Nodes |-> IF n = Self THEN "windows" ELSE "linux"]
HeartbeatTags == [n \in Nodes |-> IF n = Self THEN {"gpu"} ELSE {}]

\* ------------------------------------------------------------------------
\* State
\* ------------------------------------------------------------------------
VARIABLES
    m_dispatchTables,        \* DispatchManager: jobId -> chunks
    m_assignments,           \* DispatchManager: nodeId -> Assignment
    m_completionWritten,     \* DispatchManager: set of jobIds
    m_dirtyTables,           \* DispatchManager: set of jobIds
    m_recovered,             \* DispatchManager: recovery already ran
    m_lastWrite,             \* DispatchManager: clock at the last table write
    m_nodeActive,            \* DispatchManager: this node takes work
    dispatchJson,            \* jobs/<id>/dispatch.json on the shared disk
    stateLog,                \* newest entry of jobs/<id>/state/
    jobs,                    \* JobManager snapshot: current_state, priority
    manifest,                \* jobs/<id>/manifest.json
    now,                     \* wall clock, ms
    outstanding,             \* assignments handed out and not yet answered
    dispatched,              \* number of assignments handed out so far
    controls,                \* number of manual controls used so far
    restarts,                \* coordinator restarts so far
    nFail,                   \* history: failure reports applied, per chunk
    \* CommandManager of one node and the senders writing to its inbox
    sysClock,                \* system_clock, ms
    inbox,                   \* commands/<node>/*.json: file name -> content
    processed,               \* commands/<node>/processed/*.json
    m_actionQueue,           \* CommandManager: queue of Action
    sentIds,                 \* history: the msg_id of every sendCommand call
    enqueued,                \* history: Actions enqueued, per sendCommand call
    polls,                   \* history: pollInbox runs so far, per node
    \* HeartbeatManager and MonitorApp of every node of the farm
    hbFile,                  \* nodes/<node>/heartbeat.json
    m_nodes,                 \* HeartbeatManager: peer -> NodeInfo, per node
    m_farmRunning,           \* MonitorApp: the farm is started, per node
    m_farmError,             \* MonitorApp: the last start was refused, per node
    m_config,                \* Config: is_coordinator, per node
    \* The state directories as JobManager reads them (SpecJobs)
    stateDir,                \* jobs/<id>/state/*.json: file name -> entry
    scanTs,                  \* history: ts_ms of the entry each job's
                             \* snapshot was read from
    \* JobManager::submitJob and the jobs directory (SpecSubmit)
    submitCall,              \* per calling thread: where its submit stands
    jobDirs,                 \* the directories jobs/<slug> that exist
    manifestJson,            \* jobs/<slug>/manifest.json: slug -> content
    manifestTmp,             \* jobs/<slug>/manifest.json.tmp
    \* The threads of the coordinator's HeartbeatManager (SpecThreads)
    m_mutex,                 \* HeartbeatManager::m_mutex: the thread holding it
    threadPc,                \* per thread: the function it is in
    snapshot,                \* the last result of getNodeSnapshot
    \* The renderer of worker w1 and its pipe (SpecAgent)
    agentTask,               \* the task the renderer works on, 0 for none
    agentPipe,               \* messages the renderer wrote, not yet received
    m_messageQueue,          \* AgentSupervisor: received, not yet processed
    taskSeq,                 \* history: the tasks sent to the renderer so far
    activeTask,              \* history: the task sent for m_activeRender
    endedBy,                 \* history: << task of the render that a terminal
                             \* message ended, task that produced the message >>
    submissions,             \* submissions/*.json: file name -> what a read finds
    submissionsProcessed,    \* the file names in submissions/processed/
    m_readFailCounts,        \* SubmissionManager: file name -> failed reads
    jobsFromFile,            \* history: the jobs made from each submission file
    subPolls,                \* polls of the submission inbox so far
    submitted,               \* history: the submitJob calls that returned
    \* RenderCoordinator and MonitorApp of every node (SpecRender, SpecNode)
    m_dispatchQueue,         \* RenderCoordinator: queued assignments, per node
    m_activeRender,          \* RenderCoordinator: the chunk being rendered
    m_stopped,               \* RenderCoordinator: the node is stopped
    m_eventSeq,              \* RenderCoordinator: the event counter
    m_eventSeqLoaded,        \* RenderCoordinator: the counter was loaded
    emitted,                 \* history: jobs/<id>/events/<node>/, the seq of
                             \* each event file in emission order
    completionCalls,         \* the calls of m_completionFn that the node's
                             \* last operation made
    m_pendingCompletions,    \* MonitorApp: completions buffered on a worker
    m_localCompletionQueue,  \* DispatchManager: the coordinator's own completions
    reassigned,              \* history: the chunks reassignChunk demoted, each
                             \* with the retry_count it had then
    pausedChunks,            \* history: the chunks that were assigned when
                             \* their job was paused
    flushedCalls             \* history: the sendCommand calls made by
                             \* flushPendingCompletions

dvars == << m_dispatchTables, m_assignments, m_completionWritten,
            m_dirtyTables, m_recovered, m_lastWrite, m_nodeActive, dispatchJson,
            stateLog, jobs, manifest, now, outstanding, dispatched, controls,
            restarts, nFail >>

cvars == << sysClock, inbox, processed, m_actionQueue, sentIds, enqueued,
            polls >>

fvars == << hbFile, m_nodes, m_farmRunning, m_farmError, m_config >>

jvars == << stateDir, scanTs >>

ivars == << submissions, submissionsProcessed, m_readFailCounts, jobsFromFile,
            subPolls >>

svars == << submitCall, jobDirs, manifestJson, manifestTmp, submitted, ivars >>

rvars == << m_dispatchQueue, m_activeRender, m_stopped, m_eventSeq,
            m_eventSeqLoaded, emitted, completionCalls, m_pendingCompletions,
            m_localCompletionQueue, pausedChunks, reassigned,
            flushedCalls >>

\* The variables of the specifications that follow SpecJobs.
tvars == << m_mutex, threadPc, snapshot >>

\* The renderer of worker w1 and the pipe it shares with the AgentSupervisor.
avars == << agentTask, agentPipe, m_messageQueue, taskSeq, activeTask, endedBy >>

ovars == << svars, rvars, tvars, avars >>

vars == << dvars, cvars, fvars, jvars, ovars >>

\* manifest.cmd and manifest.tags_required of the jobs on the farm.
JobCmd == [j \in DOMAIN manifest |-> manifest[j].cmd]
JobTagsRequired == [j \in DOMAIN manifest |-> manifest[j].tags_required]

\* ------------------------------------------------------------------------
\* Node snapshot (HeartbeatManager::getNodeSnapshot), an input of update()
\* ------------------------------------------------------------------------
NodeView(dead, reclaim, nstate, rstate, job) ==
    [present |-> TRUE, isDead |-> dead, reclaimEligible |-> reclaim,
     node_state |-> nstate, render_state |-> rstate, active_job |-> job]

AbsentView ==
    [present |-> FALSE, isDead |-> TRUE, reclaimEligible |-> TRUE,
     node_state |-> "active", render_state |-> "idle", active_job |-> ""]

WorkerViews ==
    { AbsentView,
      NodeView(FALSE, FALSE, "active", "idle", ""),
      NodeView(FALSE, TRUE, "stopped", "idle", ""),
      NodeView(TRUE, FALSE, "active", "idle", ""),
      NodeView(TRUE, TRUE, "active", "idle", "") }
    \cup { NodeView(FALSE, FALSE, "active", "rendering", j) : j \in Jobs }

SelfViews ==
    { NodeView(FALSE, FALSE, "active", "idle", ""),
      NodeView(FALSE, FALSE, "active", "rendering", "") }

NodeSnapshots ==
    { [n \in Nodes |-> IF n = Self THEN sv ELSE wv[n]] :
          sv \in SelfViews, wv \in [Workers -> WorkerViews] }

\* ------------------------------------------------------------------------
\* Helpers of DispatchManager
\* ------------------------------------------------------------------------
isNodeDead(nodeId, nodes) ==
    IF nodeId \in Nodes /\ nodes[nodeId].present
    THEN nodes[nodeId].isDead /\ nodes[nodeId].reclaimEligible
    ELSE TRUE

hasOSCmd(jobId, nodeOS) == nodeOS \in JobCmd[jobId]

hasRequiredTags_Unchecked(required, nodeTags) == TRUE

hasRequiredTags(required, nodeTags) == \A req \in required : req \in nodeTags

\* The job snapshot in its order: priority descending, submitted_at ascending.
JobBefore(a, b) ==
    \/ jobs[a].current_priority > jobs[b].current_priority
    \/ /\ jobs[a].current_priority = jobs[b].current_priority
       /\ JobSubmittedAtMs[a] <= JobSubmittedAtMs[b]

JobSnapshot ==
    CHOOSE s \in [1..Cardinality(DOMAIN jobs) -> DOMAIN jobs] :
        /\ \A a, b \in 1..Cardinality(DOMAIN jobs) : a # b => s[a] # s[b]
        /\ \A a, b \in 1..Cardinality(DOMAIN jobs) : a < b => JobBefore(s[a], s[b])

\* max_retries of the job in the snapshot, 3 when the job is not in it.
LookupMaxRetries(jobId) ==
    IF jobId \in DOMAIN jobs THEN manifest[jobId].max_retries
    ELSE DefaultMaxRetries

\* Index of the first chunk with the range, 0 when there is none.
IndexOfRange(chunks, fs, fe) ==
    LET S == { i \in 1..Len(chunks) :
                 chunks[i].frame_start = fs /\ chunks[i].frame_end = fe }
    IN IF S = {} THEN 0 ELSE SetMin(S)

\* A markDirty that does not note the job.
markDirty_Forgets(st, jobId) == st

markDirty(st, jobId) == [st EXCEPT !.dirty = @ \cup {jobId}]

initDispatchTable(st, jobId) ==
    LET m == manifest[jobId]
        ranges == computeChunks(m.frame_start, m.frame_end, m.chunk_size)
        chunks == [i \in 1..Len(ranges) |-> DispatchChunk(ranges[i])]
    IN markDirty([st EXCEPT !.tables = MapPut(@, jobId, chunks)], jobId)


\* ------------------------------------------------------------------------
\* The steps of DispatchManager::update().  Each maps the manager's state
\*   st = [tables, assign, done, dirty, out, log]
\* (m_dispatchTables, m_assignments, m_completionWritten, m_dirtyTables, the
\* assignments handed out, the newest state entries) to the state after it.
\* ------------------------------------------------------------------------

\* retry_count++ and the transition of a failure, as processLocalCompletions
\* does it for a local "failed".
LocalFailed(c, maxRetries) ==
    [c EXCEPT !.retry_count = c.retry_count + 1,
              !.state = IF c.retry_count + 1 >= maxRetries THEN "failed" ELSE "pending",
              !.assigned_to = "",
              !.assigned_at_ms = 0]

\* A chunk_failed report that compares with > where the code has >=.
ReportFailed_OneMore(c, maxRetries) ==
    [c EXCEPT !.retry_count = c.retry_count + 1,
              !.state = IF c.retry_count + 1 > maxRetries THEN "failed" ELSE "pending",
              !.assigned_to = "",
              !.assigned_at_ms = 0]

\* The same for a chunk_failed report in processWorkerReports.
ReportFailed(c, maxRetries) ==
    [c EXCEPT !.retry_count = c.retry_count + 1,
              !.state = IF c.retry_count + 1 >= maxRetries THEN "failed" ELSE "pending",
              !.assigned_to = "",
              !.assigned_at_ms = 0]

\* The same for a reclaimed chunk in detectDeadWorkers.
ReclaimChunk(c, maxRetries) ==
    [c EXCEPT !.retry_count = c.retry_count + 1,
              !.state = IF c.retry_count + 1 >= maxRetries THEN "failed" ELSE "pending",
              !.assigned_to = "",
              !.assigned_at_ms = 0]

ChunkCompleted(c) == [c EXCEPT !.state = "completed"]

ChunkToPending(c) ==
    [c EXCEPT !.state = "pending", !.assigned_to = "", !.assigned_at_ms = 0]

\* One entry of m_localCompletionQueue.
LocalCompletionStep(st, entry) ==
    IF entry.jobId \notin DOMAIN st.tables
    THEN st
    ELSE
      LET chunks == st.tables[entry.jobId]
          i == IndexOfRange(chunks, entry.frame_start, entry.frame_end)
          c2 == IF entry.state = "completed" THEN ChunkCompleted(chunks[i])
                ELSE IF entry.state = "failed"
                     THEN LocalFailed(chunks[i], LookupMaxRetries(entry.jobId))
                     ELSE ChunkToPending(chunks[i])
          s1 == IF i = 0 THEN st
                ELSE markDirty([st EXCEPT !.tables[entry.jobId][i] = c2], entry.jobId)
      IN IF Self \in DOMAIN s1.assign /\ s1.assign[Self].jobId = entry.jobId
         THEN [s1 EXCEPT !.assign = MapErase(@, Self)]
         ELSE s1

RECURSIVE processLocalCompletions(_, _)
processLocalCompletions(st, queue) ==
    IF queue = << >> THEN st
    ELSE processLocalCompletions(LocalCompletionStep(st, Head(queue)), Tail(queue))

\* One queued worker report.
WorkerReportStep(st, action) ==
    IF action.jobId \notin DOMAIN st.tables
    THEN st
    ELSE
      LET chunks == st.tables[action.jobId]
          i == IndexOfRange(chunks, action.frameStart, action.frameEnd)
          c2 == IF action.type = "chunk_completed" THEN ChunkCompleted(chunks[i])
                ELSE ReportFailed(chunks[i], LookupMaxRetries(action.jobId))
          s1 == IF i = 0 THEN st
                ELSE markDirty([st EXCEPT !.tables[action.jobId][i] = c2], action.jobId)
      IN IF /\ action.fromNodeId \in DOMAIN s1.assign
            /\ s1.assign[action.fromNodeId].jobId = action.jobId
         THEN [s1 EXCEPT !.assign = MapErase(@, action.fromNodeId)]
         ELSE s1

RECURSIVE processWorkerReports(_, _)
processWorkerReports(st, queue) ==
    IF queue = << >> THEN st
    ELSE processWorkerReports(WorkerReportStep(st, Head(queue)), Tail(queue))

StaleMs == Max(MinStaleMs, DeadThresholdScans * HeartbeatIntervalMs * 2)

workerRenderingThisJob(nodeId, jobId, nodes) ==
    /\ nodes[nodeId].present
    /\ nodes[nodeId].render_state = "rendering"
    /\ nodes[nodeId].active_job = jobId

\* The same test without the look at the worker's heartbeat.
IsStaleAssignment_IgnoresHeartbeat(nodeId, a, nodes) ==
    /\ nodeId # Self
    /\ \/ isNodeDead(nodeId, nodes)
       \/ now - a.assignedAtMs > StaleMs

\* The test that puts an assignment on detectDeadWorkers' staleNodes list.
IsStaleAssignment(nodeId, a, nodes) ==
    /\ nodeId # Self
    /\ \/ isNodeDead(nodeId, nodes)
       \/ /\ now - a.assignedAtMs > StaleMs
          /\ ~workerRenderingThisJob(nodeId, a.jobId, nodes)

\* The second loop of detectDeadWorkers, for one stale node.
ReclaimStep(st, nodeId) ==
    LET a == st.assign[nodeId]
        s1 == IF a.jobId \notin DOMAIN st.tables THEN st
              ELSE
                LET chunks == st.tables[a.jobId]
                    S == { i \in 1..Len(chunks) :
                             /\ chunks[i].frame_start = a.frame_start
                             /\ chunks[i].frame_end = a.frame_end
                             /\ chunks[i].state = "assigned" }
                IN IF S = {} THEN st
                   ELSE markDirty(
                          [st EXCEPT !.tables[a.jobId][SetMin(S)] =
                              ReclaimChunk(chunks[SetMin(S)], LookupMaxRetries(a.jobId))],
                          a.jobId)
    IN [s1 EXCEPT !.assign = MapErase(@, nodeId)]

RECURSIVE ReclaimAll(_, _, _)
ReclaimAll(st, staleNodes, k) ==
    IF k > Len(NodeOrder) THEN st
    ELSE IF NodeOrder[k] \in staleNodes
         THEN ReclaimAll(ReclaimStep(st, NodeOrder[k]), staleNodes, k + 1)
         ELSE ReclaimAll(st, staleNodes, k + 1)

detectDeadWorkers(st, nodes) ==
    LET staleNodes == { n \in DOMAIN st.assign :
                          IsStaleAssignment(n, st.assign[n], nodes) }
    IN ReclaimAll(st, staleNodes, 1)

AllDone(chunks) == \A i \in 1..Len(chunks) : chunks[i].state = "completed"

\* The jobs checkJobCompletions writes a terminal state entry for.
JobsToComplete(st) ==
    { j \in DOMAIN jobs :
        /\ jobs[j].current_state = "active"
        /\ j \notin st.done
        /\ j \in DOMAIN st.tables
        /\ AllDone(st.tables[j]) }

checkJobCompletions(st) ==
    LET C == JobsToComplete(st)
    IN [st EXCEPT
          !.done = @ \cup C,
          !.log = [j \in DOMAIN st.log |->
                     IF j \in C THEN [state |-> "completed", priority |-> 0]
                     ELSE @[j]]]


\* assignWork's filter without the test of the heartbeat's render_state.
IsIdleWorker_AnyRenderState(n, st, nodes) ==
    /\ nodes[n].present
    /\ ~nodes[n].isDead
    /\ nodes[n].node_state = "active"
    /\ n \notin DOMAIN st.assign

\* The workers assignWork may give a chunk to, in snapshot order.
IsIdleWorker(n, st, nodes) ==
    /\ nodes[n].present
    /\ ~nodes[n].isDead
    /\ nodes[n].node_state = "active"
    /\ nodes[n].render_state = "idle"
    /\ n \notin DOMAIN st.assign

FirstPending(chunks) ==
    LET S == { i \in 1..Len(chunks) : chunks[i].state = "pending" }
    IN IF S = {} THEN 0 ELSE SetMin(S)

\* A job assignWork does not skip for this worker.
JobSuitable(st, jobId, worker) ==
    /\ hasOSCmd(jobId, HeartbeatOS[worker])
    /\ hasRequiredTags(JobTagsRequired[jobId], HeartbeatTags[worker])
    /\ jobId \in DOMAIN st.tables
    /\ FirstPending(st.tables[jobId]) # 0

\* The body of assignWork's loop for one idle worker.
AssignStep(st, worker, activeJobs) ==
    LET K == { k \in 1..Len(activeJobs) : JobSuitable(st, activeJobs[k], worker) }
    IN IF K = {} THEN st
       ELSE
         LET jobId == activeJobs[SetMin(K)]
             i == FirstPending(st.tables[jobId])
             c == st.tables[jobId][i]
             c2 == [c EXCEPT !.state = "assigned", !.assigned_to = worker,
                             !.assigned_at_ms = now]
         IN markDirty(
              [st EXCEPT
                 !.tables[jobId][i] = c2,
                 !.assign = MapPut(@, worker,
                               [jobId |-> jobId, frame_start |-> c.frame_start,
                                frame_end |-> c.frame_end, assignedAtMs |-> now]),
                 !.out = @ \cup {[node |-> worker, jobId |-> jobId,
                                  frame_start |-> c.frame_start,
                                  frame_end |-> c.frame_end]}],
              jobId)

RECURSIVE AssignAll(_, _, _, _)
AssignAll(st, idleWorkers, activeJobs, k) ==
    IF k > Len(idleWorkers) THEN st
    ELSE AssignAll(AssignStep(st, idleWorkers[k], activeJobs),
                   idleWorkers, activeJobs, k + 1)

IsActiveJob(j) == jobs[j].current_state = "active"

\* The idle workers of assignWork, in snapshot order.
IdleWorkers(st, nodes) ==
    LET IsIdle(n) == IsIdleWorker(n, st, nodes)
    IN SelectSeq(NodeOrder, IsIdle)

\* assignWork once its std::sort has left the active jobs as `activeJobs`.
assignWorkIn(st, nodes, activeJobs) ==
    AssignAll(st, IdleWorkers(st, nodes), activeJobs, 1)

\* The active jobs in the order of the job snapshot.
ActiveJobsInOrder == SelectSeq(JobSnapshot, IsActiveJob)

\* assignWork while the sort keeps jobs of equal priority in snapshot order,
\* as it does for the one or two active jobs of these farms.
assignWork(st, nodes) == assignWorkIn(st, nodes, ActiveJobsInOrder)

\* recoverFromDisk: the chunks of one dispatch.json, from chunk k on.
RECURSIVE RecoverChunks(_, _, _, _, _)
RecoverChunks(chunks, assign, jobId, nodes, k) ==
    IF k > Len(chunks) THEN [chunks |-> chunks, assign |-> assign]
    ELSE
      LET c == chunks[k]
      IN IF c.state # "assigned"
         THEN RecoverChunks(chunks, assign, jobId, nodes, k + 1)
         ELSE IF c.assigned_to = "" \/ isNodeDead(c.assigned_to, nodes)
              THEN RecoverChunks([chunks EXCEPT ![k] = ChunkToPending(c)],
                                 assign, jobId, nodes, k + 1)
              ELSE RecoverChunks(chunks,
                                 MapPut(assign, c.assigned_to,
                                        [jobId |-> jobId,
                                         frame_start |-> c.frame_start,
                                         frame_end |-> c.frame_end,
                                         assignedAtMs |-> c.assigned_at_ms]),
                                 jobId, nodes, k + 1)

RecoverJob(st, jobId, nodes) ==
    IF jobs[jobId].current_state # "active" \/ jobId \notin DOMAIN dispatchJson
    THEN st
    ELSE LET r == RecoverChunks(dispatchJson[jobId], st.assign, jobId, nodes, 1)
         IN markDirty([st EXCEPT !.tables = MapPut(@, jobId, r.chunks),
                                 !.assign = r.assign], jobId)

RECURSIVE RecoverAll(_, _, _)
RecoverAll(st, nodes, k) ==
    IF k > Len(JobSnapshot) THEN st
    ELSE RecoverAll(RecoverJob(st, JobSnapshot[k], nodes), nodes, k + 1)

recoverFromDisk(st, nodes) == RecoverAll(st, nodes, 1)

\* "Ensure dispatch tables exist for all active jobs".
RECURSIVE EnsureTables(_, _)
EnsureTables(st, k) ==
    IF k > Len(JobSnapshot) THEN st
    ELSE LET j == JobSnapshot[k]
         IN IF jobs[j].current_state = "active" /\ j \notin DOMAIN st.tables
            THEN EnsureTables(initDispatchTable(st, j), k + 1)
            ELSE EnsureTables(st, k + 1)

\* The dispatch.json files after writeDispatchTables / stop() wrote `dirty`.
WriteTables(disk, tables, dirty) ==
    [j \in (DOMAIN disk) \cup (dirty \cap DOMAIN tables) |->
        IF j \in dirty /\ j \in DOMAIN tables THEN tables[j] ELSE disk[j]]

RetryCapOK(tables) ==
    \A j \in DOMAIN tables : \A i \in 1..Len(tables[j]) :
        tables[j][i].retry_count <= MaxRetryCount

DMState ==
    [tables |-> m_dispatchTables, assign |-> m_assignments,
     done |-> m_completionWritten, dirty |-> m_dirtyTables,
     out |-> {}, log |-> stateLog]

\* The reports the command inbox can hold at one main-loop iteration: each
\* assign_chunk a worker was sent is answered at most once, with
\* chunk_completed or chunk_failed (worker_busy, an abort, a failed render).
ReportOf(e, type) ==
    [type |-> type, jobId |-> e.jobId, frameStart |-> e.frame_start,
     frameEnd |-> e.frame_end, fromNodeId |-> e.node]

ReportBatches ==
    { << >> } \cup
    { << ReportOf(e, type) >> :
        e \in { x \in outstanding : x.node \in Workers },
        type \in {"chunk_completed", "chunk_failed"} }

\* The completions the coordinator's own RenderCoordinator has handed to
\* queueLocalCompletion since the last update(): a self-dispatched chunk ends
\* completed or failed, or abandoned when the node is stopped.
CompletionOf(e, state) ==
    [jobId |-> e.jobId, frame_start |-> e.frame_start,
     frame_end |-> e.frame_end, state |-> state]

LocalBatches ==
    { << >> } \cup
    { << CompletionOf(e, state) >> :
        e \in { x \in outstanding : x.node = Self },
        state \in {"completed", "failed"}
                  \cup (IF m_nodeActive THEN {} ELSE {"abandoned"}) }

Answered(reports, local) ==
    { e \in outstanding :
        \/ \E k \in 1..Len(reports) :
            /\ reports[k].fromNodeId = e.node
            /\ reports[k].jobId = e.jobId
            /\ reports[k].frameStart = e.frame_start
            /\ reports[k].frameEnd = e.frame_end
        \/ \E k \in 1..Len(local) :
            /\ e.node = Self
            /\ local[k].jobId = e.jobId
            /\ local[k].frame_start = e.frame_start
            /\ local[k].frame_end = e.frame_end }

\* DispatchManager::update() for one node snapshot, after processAction has
\* queued `reports` and queueLocalCompletion has queued `local`.
UpdateResult(nodes, reports, local) ==
    LET s0 == DMState
        s1 == IF m_recovered THEN s0 ELSE recoverFromDisk(s0, nodes)
        s2 == EnsureTables(s1, 1)
        s3 == processLocalCompletions(s2, local)
        s4 == processWorkerReports(s3, reports)
        s5 == detectDeadWorkers(s4, nodes)
        s6 == checkJobCompletions(s5)
    IN IF m_nodeActive THEN assignWork(s6, nodes) ELSE s6

\* One iteration of MonitorApp::update on the coordinator: the popped
\* chunk_completed / chunk_failed actions go to processAction, then
\* DispatchManager::update() runs to the result r, ending with
\* writeDispatchTables().
UpdateDM(r, reports, local) ==
      LET write == r.dirty # {} /\ now - m_lastWrite >= WRITE_THROTTLE_MS
      IN /\ RetryCapOK(r.tables)
         /\ dispatched + Cardinality(r.out) <= MaxDispatches
         /\ dispatched' = dispatched + Cardinality(r.out)
         /\ m_recovered' = TRUE
         /\ m_dispatchTables' = r.tables
         /\ m_assignments' = r.assign
         /\ m_completionWritten' = r.done
         /\ outstanding' = (outstanding \ Answered(reports, local)) \cup r.out
         /\ stateLog' = r.log
         /\ m_dirtyTables' = IF write THEN {} ELSE r.dirty
         /\ m_lastWrite' = IF write THEN now ELSE m_lastWrite
         /\ dispatchJson' = IF write THEN WriteTables(dispatchJson, r.tables, r.dirty)
                            ELSE dispatchJson

UpdateStep(r, reports, local) ==
    /\ UpdateDM(r, reports, local)
    /\ UNCHANGED << m_nodeActive, jobs, manifest, now, controls, restarts,
                    cvars, jvars, ovars, fvars >>

UpdateWith(nodes, reports, local) ==
    \E r \in { UpdateResult(nodes, reports, local) } :
        UpdateStep(r, reports, local)

Update ==
    \E nodes \in NodeSnapshots, reports \in ReportBatches,
       local \in LocalBatches :
      /\ UpdateWith(nodes, reports, local)
      /\ UNCHANGED nFail

\* ------------------------------------------------------------------------
\* The other entry points of the DispatchManager, and its environment
\* ------------------------------------------------------------------------
Tick ==
    /\ now + TickMs <= MaxNow
    /\ now' = now + TickMs
    /\ UNCHANGED << m_dispatchTables, m_assignments, m_completionWritten,
                    m_dirtyTables,
                    m_recovered, m_nodeActive, dispatchJson, stateLog, jobs,
                    manifest, outstanding, dispatched, controls, restarts,
                      m_lastWrite, nFail, cvars, jvars, ovars, fvars >>

\* A manual control of the operator is used.
UseControl ==
    /\ controls < MaxControls
    /\ controls' = controls + 1

JobStopped_TableOnly(st, jobId) ==
    IF jobId \notin DOMAIN st.tables THEN st
    ELSE markDirty(
           [st EXCEPT !.tables[jobId] =
               [i \in 1..Len(@) |->
                   IF @[i].state = "assigned" THEN ChunkToPending(@[i])
                   ELSE @[i]]],
           jobId)

\* handleJobStateChange(jobId, "paused" | "cancelled").
JobStopped(st, jobId) ==
    LET held == { n \in DOMAIN st.assign : st.assign[n].jobId = jobId }
        a2 == [n \in (DOMAIN st.assign) \ held |-> st.assign[n]]
        s1 == [st EXCEPT !.assign = a2]
    IN IF jobId \notin DOMAIN st.tables THEN s1
       ELSE markDirty(
              [s1 EXCEPT !.tables[jobId] =
                  [i \in 1..Len(@) |->
                      IF @[i].state = "assigned" THEN ChunkToPending(@[i])
                      ELSE @[i]]],
              jobId)

\* handleJobStateChange(jobId, "active").
JobResumed(st, jobId) ==
    IF jobId \notin DOMAIN st.tables /\ jobId \in DOMAIN jobs
    THEN initDispatchTable(st, jobId)
    ELSE st

\* The abort_chunk commands handleJobStateChange(jobId, "paused" |
\* "cancelled") hands to m_commandSenderFn, in the order of m_assignments.
AbortsOnStop(st, jobId, newState) ==
    LET Aborted(n) == /\ n \in DOMAIN st.assign
                      /\ st.assign[n].jobId = jobId
                      /\ n # Self
        targets == SelectSeq(NodeOrder, Aborted)
    IN [k \in 1..Len(targets) |->
          [target |-> targets[k], type |-> "abort_chunk", jobId |-> jobId,
           reason |-> IF newState = "paused" THEN "job_paused" ELSE "job_cancelled",
           frame_start |-> st.assign[targets[k]].frame_start,
           frame_end |-> st.assign[targets[k]].frame_end]]

\* DispatchManager::handleJobStateChange: the scheduler state it leaves and
\* the commands it sends.
handleJobStateChange(st, jobId, newState) ==
    IF newState \in {"paused", "cancelled"}
    THEN [state |-> JobStopped(st, jobId), sent |-> AbortsOnStop(st, jobId, newState)]
    ELSE IF newState = "active"
    THEN [state |-> JobResumed(st, jobId), sent |-> << >>]
    ELSE [state |-> st, sent |-> << >>]

\* MonitorApp::pauseJob / cancelJob on the coordinator: the state entry, then
\* the hook; the job snapshot shows the entry at the next update().
StopJob ==
    \E j \in DOMAIN jobs, newState \in {"paused", "cancelled"} :
      /\ newState = "paused" => jobs[j].current_state = "active"
      /\ jobs[j].current_state # newState
      /\ LET entry == [state |-> newState,
                       priority |-> IF newState = "cancelled" THEN 0
                                    ELSE jobs[j].current_priority]
             r == JobStopped(DMState, j)
         IN /\ stateLog' = [stateLog EXCEPT ![j] = entry]
            /\ jobs' = [jobs EXCEPT ![j] = [current_state |-> entry.state,
                                            current_priority |-> entry.priority]]
            /\ m_dispatchTables' = r.tables
            /\ m_assignments' = r.assign
            /\ m_dirtyTables' = r.dirty
      /\ UseControl
      /\ UNCHANGED << m_completionWritten, m_recovered, m_nodeActive,
                      dispatchJson, manifest, now, outstanding,
                      dispatched, restarts,
                      m_lastWrite, nFail, cvars, jvars, ovars, fvars >>

\* MonitorApp::resumeJob on the coordinator.
ResumeJob ==
    \E j \in DOMAIN jobs :
      /\ jobs[j].current_state # "active"
      /\ LET entry == [state |-> "active", priority |-> jobs[j].current_priority]
             r == JobResumed(DMState, j)
         IN /\ stateLog' = [stateLog EXCEPT ![j] = entry]
            /\ jobs' = [jobs EXCEPT ![j] = [current_state |-> entry.state,
                                            current_priority |-> entry.priority]]
            /\ m_dispatchTables' = r.tables
            /\ m_dirtyTables' = r.dirty
      /\ UseControl
      /\ UNCHANGED << m_assignments, m_completionWritten, m_recovered, m_nodeActive,
                      dispatchJson, manifest, now, outstanding,
                      dispatched, restarts,
                      m_lastWrite, nFail, cvars, jvars, ovars, fvars >>

\* JobManager::scan reads the newest state entry of a job.
JobScan ==
    \E j \in DOMAIN jobs :
      /\ jobs[j] # [current_state |-> stateLog[j].state,
                    current_priority |-> stateLog[j].priority]
      /\ jobs' = [jobs EXCEPT ![j] = [current_state |-> stateLog[j].state,
                                      current_priority |-> stateLog[j].priority]]
      /\ UNCHANGED << m_dispatchTables, m_assignments, m_completionWritten,
                    m_dirtyTables,
                      m_recovered, m_nodeActive, dispatchJson, stateLog,
                      manifest, now, outstanding, dispatched, controls, restarts,
                      m_lastWrite, nFail, cvars, jvars, ovars, fvars >>

\* DispatchManager::reassignChunk.
reassignChunk(st, jobId, frameStart, frameEnd) ==
    IF jobId \notin DOMAIN st.tables THEN st
    ELSE
      LET chunks == st.tables[jobId]
          S == { i \in 1..Len(chunks) :
                   /\ chunks[i].frame_start = frameStart
                   /\ chunks[i].frame_end = frameEnd
                   /\ chunks[i].state = "assigned" }
      IN IF S = {} THEN st
         ELSE LET i == SetMin(S)
                  c == chunks[i]
                  s1 == IF c.assigned_to # ""
                        THEN [st EXCEPT !.assign =
                                 [n \in (DOMAIN @) \ {c.assigned_to} |-> @[n]]]
                        ELSE st
              IN markDirty([s1 EXCEPT !.tables[jobId][i] = ChunkToPending(c)],
                           jobId)

\* A retry that also gives the chunk its retries back.
retryFailedChunk_ResetsCount(st, jobId, frameStart, frameEnd) ==
    IF jobId \notin DOMAIN st.tables THEN st
    ELSE
      LET chunks == st.tables[jobId]
          S == { i \in 1..Len(chunks) :
                   /\ chunks[i].frame_start = frameStart
                   /\ chunks[i].frame_end = frameEnd
                   /\ chunks[i].state = "failed" }
      IN IF S = {} THEN st
         ELSE markDirty(
                [st EXCEPT !.tables[jobId][SetMin(S)] =
                    [ChunkToPending(chunks[SetMin(S)]) EXCEPT !.retry_count = 0]],
                jobId)

\* DispatchManager::retryFailedChunk.
retryFailedChunk(st, jobId, frameStart, frameEnd) ==
    IF jobId \notin DOMAIN st.tables THEN st
    ELSE
      LET chunks == st.tables[jobId]
          S == { i \in 1..Len(chunks) :
                   /\ chunks[i].frame_start = frameStart
                   /\ chunks[i].frame_end = frameEnd
                   /\ chunks[i].state = "failed" }
      IN IF S = {} THEN st
         ELSE markDirty(
                [st EXCEPT !.tables[jobId][SetMin(S)] =
                    ChunkToPending(chunks[SetMin(S)])],
                jobId)

\* The ranges the chunk table of the UI shows for a job.
ShownChunks(j) ==
    IF j \in DOMAIN m_dispatchTables
    THEN { m_dispatchTables[j][i] : i \in 1..Len(m_dispatchTables[j]) }
    ELSE {}

ReassignChunk ==
    \E j \in DOMAIN jobs : \E c \in ShownChunks(j) :
      /\ c.state = "assigned"
      /\ LET r == reassignChunk(DMState, j, c.frame_start, c.frame_end)
         IN /\ m_dispatchTables' = r.tables
            /\ m_assignments' = r.assign
            /\ m_dirtyTables' = r.dirty
      /\ UseControl
      /\ UNCHANGED << m_completionWritten, m_recovered, m_nodeActive,
                      dispatchJson, stateLog, jobs, manifest, now,
                      outstanding, dispatched, restarts,
                      m_lastWrite, nFail, cvars, jvars, ovars, fvars >>

RetryFailedChunk ==
    \E j \in DOMAIN jobs : \E c \in ShownChunks(j) :
      /\ c.state = "failed"
      /\ LET r == retryFailedChunk(DMState, j, c.frame_start, c.frame_end)
         IN /\ m_dispatchTables' = r.tables
            /\ m_assignments' = r.assign
            /\ m_dirtyTables' = r.dirty
      /\ UseControl
      /\ UNCHANGED << m_completionWritten, m_recovered, m_nodeActive,
                      dispatchJson, stateLog, jobs, manifest, now,
                      outstanding, dispatched, restarts,
                      m_lastWrite, nFail, cvars, jvars, ovars, fvars >>

\* MonitorApp::setNodeState on the coordinator -> setNodeActive.
SetNodeState ==
    /\ m_nodeActive' = ~m_nodeActive
    /\ UseControl
    /\ UNCHANGED << m_dispatchTables, m_assignments, m_completionWritten,
                    m_dirtyTables,
                    m_recovered, dispatchJson, stateLog, jobs, manifest, now,
                    outstanding, dispatched, restarts,
                      m_lastWrite, nFail, cvars, jvars, ovars, fvars >>

\* The coordinator process ends, cleanly (stop() flushes the dirty tables) or
\* not, and a new one starts: start() on a fresh DispatchManager.
Restart ==
    \E clean \in BOOLEAN :
      /\ restarts < MaxRestarts
      /\ restarts' = restarts + 1
      /\ dispatchJson' = IF clean
                         THEN WriteTables(dispatchJson, m_dispatchTables, m_dirtyTables)
                         ELSE dispatchJson
      /\ m_dispatchTables' = EmptyMap
      /\ m_assignments' = EmptyMap
      /\ m_dirtyTables' = {}
      /\ m_completionWritten' = {}
      /\ m_recovered' = FALSE
      /\ m_lastWrite' = 0
      /\ m_nodeActive' = TRUE
      /\ outstanding' = { e \in outstanding : e.node # Self }
      /\ UNCHANGED << stateLog, jobs, manifest, now, dispatched, controls,
                      nFail, cvars, jvars, ovars, fvars >>

\* ------------------------------------------------------------------------
\* Spec: the coordinator's scheduler
\* ------------------------------------------------------------------------
\* The command and heartbeat side at rest.
\* The state directories are read file by file in SpecJobs only; elsewhere
\* stateLog keeps the newest entry.
NoStateDir ==
    /\ stateDir = EmptyMap
    /\ scanTs = EmptyMap

\* No submitJob call has started and the jobs directory is as the farms'
\* manifests were read from it.
SubmitInit ==
    /\ submitCall = [t \in {"main", "submission"} |-> [pc |-> "idle"]]
    /\ jobDirs = {}
    /\ manifestJson = EmptyMap
    /\ manifestTmp = EmptyMap
    /\ submitted = << >>
    /\ submissions = EmptyMap
    /\ submissionsProcessed = {}
    /\ m_readFailCounts = EmptyMap
    /\ jobsFromFile = EmptyMap
    /\ subPolls = 0

\* No render is active: optional<ActiveRender> is empty.
NoRender == << >>

\* Every node as RenderCoordinator::init and a new MonitorApp leave it, with
\* no event file written yet.
RenderInit ==
    /\ m_dispatchQueue = [n \in Nodes |-> << >>]
    /\ m_activeRender = [n \in Nodes |-> NoRender]
    /\ m_stopped = [n \in Nodes |-> FALSE]
    /\ m_eventSeq = [n \in Nodes |-> 0]
    /\ m_eventSeqLoaded = [n \in Nodes |-> FALSE]
    /\ emitted = [n \in Nodes |-> [j \in Jobs |-> << >>]]
    /\ completionCalls = [n \in Nodes |-> << >>]
    /\ m_pendingCompletions = [n \in Nodes |-> << >>]
    /\ m_localCompletionQueue = << >>
    /\ pausedChunks = {}
    /\ reassigned = {}
    /\ flushedCalls = {}

\* No thread of the HeartbeatManager is inside one of its functions.
ThreadsInit ==
    /\ m_mutex = "none"
    /\ threadPc = [t \in {"heartbeat", "main"} |-> "idle"]
    /\ snapshot = << >>

AgentInit ==
    /\ agentTask = 0
    /\ agentPipe = << >>
    /\ m_messageQueue = << >>
    /\ taskSeq = 0
    /\ activeTask = 0
    /\ endedBy = {}

OthersIdle == SubmitInit /\ RenderInit /\ ThreadsInit /\ AgentInit

CommandInit ==
    /\ sysClock = 0
    /\ inbox = [n \in Nodes |-> EmptyMap]
    /\ processed = [n \in Nodes |-> EmptyMap]
    /\ m_actionQueue = [n \in Nodes |-> << >>]
    /\ sentIds = << >>
    /\ enqueued = << >>
    /\ polls = [n \in Nodes |-> 0]

HeartbeatInit ==
    /\ hbFile = EmptyMap
    /\ m_nodes = EmptyMap
    /\ m_farmRunning = EmptyMap
    /\ m_farmError = EmptyMap
    /\ m_config = EmptyMap

\* The coordinator right after startFarm, over one of the `farms` whose jobs
\* were submitted with one of the `priorities`.
DispatchInitAt(farms, priorities) ==
    /\ m_dispatchTables = EmptyMap
    /\ m_assignments = EmptyMap
    /\ m_completionWritten = {}
    /\ m_dirtyTables = {}
    /\ m_recovered = FALSE
    /\ m_lastWrite = 0
    /\ m_nodeActive = TRUE
    /\ dispatchJson = EmptyMap
    /\ manifest \in farms
    /\ stateLog \in { [j \in DOMAIN manifest |->
                          [state |-> "active", priority |-> pr[j]]] :
                      pr \in [DOMAIN manifest -> priorities] }
    /\ jobs = [j \in DOMAIN manifest |->
                  [current_state |-> stateLog[j].state,
                   current_priority |-> stateLog[j].priority]]
    /\ now = TickMs
    /\ outstanding = {}
    /\ dispatched = 0
    /\ controls = 0
    /\ nFail = EmptyMap
    /\ restarts = 0

\* Jobs submitted with the default priority.
DispatchInit(farms) == DispatchInitAt(farms, {50})

Init == DispatchInit(OneJobFarms) /\ CommandInit /\ OthersIdle
        /\ NoStateDir /\ HeartbeatInit

\* One run of the coordinator under the operator's controls.
Next ==
    \/ Update
    \/ StopJob
    \/ ResumeJob
    \/ JobScan
    \/ ReassignChunk
    \/ RetryFailedChunk
    \/ SetNodeState

Spec == Init /\ [][Next]_vars

\* ------------------------------------------------------------------------
\* SpecRecover: the coordinator over time and across restarts
\* ------------------------------------------------------------------------
NextRecover ==
    \/ Update
    \/ Tick
    \/ Restart
    \/ JobScan

InitRecover ==
    DispatchInit(OneJobFarms \cup TwoJobFarms) /\ CommandInit /\ OthersIdle
        /\ NoStateDir /\ HeartbeatInit

SpecRecover == InitRecover /\ [][NextRecover]_vars

\* ------------------------------------------------------------------------
\* SpecRetry: chunks that only ever fail
\* ------------------------------------------------------------------------
FailKey(jobId, frame_start, frame_end) == << jobId, frame_start, frame_end >>

FailCount(k) == IF k \in DOMAIN nFail THEN nFail[k] ELSE 0

Bump(f, k) == MapPut(f, k, (IF k \in DOMAIN f THEN f[k] ELSE 0) + 1)

RECURSIVE BumpReports(_, _)
BumpReports(f, reports) ==
    IF reports = << >> THEN f
    ELSE BumpReports(Bump(f, FailKey(Head(reports).jobId, Head(reports).frameStart,
                                     Head(reports).frameEnd)),
                     Tail(reports))

RECURSIVE BumpLocal(_, _)
BumpLocal(f, local) ==
    IF local = << >> THEN f
    ELSE BumpLocal(Bump(f, FailKey(Head(local).jobId, Head(local).frame_start,
                                   Head(local).frame_end)),
                   Tail(local))

\* Snapshots in which every worker is alive and takes work.
AliveSnapshots ==
    { n \in NodeSnapshots :
        \A w \in Workers : n[w].present /\ ~n[w].isDead /\ n[w].node_state = "active" }

\* An update() whose reports and local completions are all failures.
FailingUpdate ==
    \E nodes \in AliveSnapshots,
       reports \in { b \in ReportBatches :
                       \A k \in 1..Len(b) : b[k].type = "chunk_failed" },
       local \in { b \in LocalBatches :
                     \A k \in 1..Len(b) : b[k].state = "failed" } :
      /\ UpdateWith(nodes, reports, local)
      /\ nFail' = BumpLocal(BumpReports(nFail, reports), local)

NextRetry ==
    \/ FailingUpdate

\* Jobs of one and two chunks with max_retries 0, 1 and 2.
RetryFarms ==
    { "j1" :> Manifest(1, 2, 1, 0), "j1" :> Manifest(1, 2, 1, 1),
      "j1" :> Manifest(1, 2, 1, 2), "j1" :> Manifest(1, 1, 1, 1) }

InitRetry ==
    DispatchInit(OneJobFarms \cup RetryFarms) /\ CommandInit /\ OthersIdle
        /\ NoStateDir /\ HeartbeatInit

SpecRetry == InitRetry /\ [][NextRetry]_vars

\* What C5 says of one chunk when a job that allows `limit` failures has seen
\* FailCount failure reports for it.
FailsAfter(j, i, limit) ==
    LET c == m_dispatchTables[j][i]
        n == FailCount(FailKey(j, c.frame_start, c.frame_end))
    IN /\ c.retry_count = n
       /\ n <= limit
       /\ c.state = "failed" <=> n = limit
       /\ c.state \in {"pending", "assigned", "failed"}

FailedStays ==
    \A j \in DOMAIN m_dispatchTables : \A i \in 1..Len(m_dispatchTables[j]) :
        m_dispatchTables[j][i].state = "failed"
        => /\ m_dispatchTables'[j][i].state = "failed"
           /\ m_dispatchTables'[j][i].assigned_to = ""

\* C5 as stated: every failure report adds exactly one to retry_count and the
\* chunk is failed exactly when the reports number max_retries, for every
\* max_retries of the manifest.
C5_FailedAfterMaxRetriesReports ==
    \A j \in DOMAIN m_dispatchTables : \A i \in 1..Len(m_dispatchTables[j]) :
        FailsAfter(j, i, manifest[j].max_retries)

\* C5, amended: every failure report adds exactly one to retry_count; with
\* max_retries >= 1 the chunk is failed exactly when max_retries reports have
\* been applied, with retry_count = max_retries; with max_retries = 0 the
\* first report already makes it failed, with retry_count = 1; and while
\* retryFailedChunk is not invoked a failed chunk stays failed and unassigned.
C5_FailedAfterRetriesFromOne ==
    /\ [](\A j \in DOMAIN m_dispatchTables : \A i \in 1..Len(m_dispatchTables[j]) :
            FailsAfter(j, i, Max(manifest[j].max_retries, 1)))
    /\ [][FailedStays]_vars

\* A chunk of a job with max_retries = 2 that failed twice.
C5_Witness ==
    \E j \in DOMAIN m_dispatchTables : \E i \in 1..Len(m_dispatchTables[j]) :
        /\ manifest[j].max_retries = 2
        /\ m_dispatchTables[j][i].state = "failed"
        /\ m_dispatchTables[j][i].retry_count = 2
        /\ FailCount(FailKey(j, m_dispatchTables[j][i].frame_start,
                             m_dispatchTables[j][i].frame_end)) = 2

\* ------------------------------------------------------------------------
\* SpecFarm: heartbeats, farm start and stop, and the coordinator's recovery
\* ------------------------------------------------------------------------
\* The render state MonitorApp::update syncs into the heartbeat.
RenderingJobs(n) == { e.jobId : e \in { x \in outstanding : x.node = n } }

buildHeartbeat(n, seq, nodeState) ==
    [seq |-> seq, node_state |-> nodeState,
     render_state |-> IF RenderingJobs(n) = {} THEN "idle" ELSE "rendering",
     active_job |-> IF RenderingJobs(n) = {} THEN ""
                    ELSE CHOOSE j \in RenderingJobs(n) : TRUE,
     is_coordinator |-> m_config[n]]

\* A NodeInfo as operator[] of m_nodes creates it.
NodeInfo ==
    [heartbeat |-> [seq |-> 0, node_state |-> "active", render_state |-> "idle",
                    active_job |-> "", is_coordinator |-> FALSE],
     isLocal |-> FALSE, isDead |-> TRUE, staleCount |-> 0, lastSeenSeq |-> 0,
     reclaimEligible |-> TRUE]

\* The entry of the local node after writeHeartbeat.
LocalInfo(info, hb) ==
    [info EXCEPT !.heartbeat = hb, !.isLocal = TRUE, !.isDead = FALSE,
                 !.staleCount = 0, !.lastSeenSeq = hb.seq]

writeHeartbeat(n, seq) ==
    LET hb == buildHeartbeat(n, seq, "active")
        old == IF n \in DOMAIN m_nodes[n] THEN m_nodes[n][n] ELSE NodeInfo
    IN [file |-> MapPut(hbFile, n, hb),
        nodes |-> MapPut(m_nodes[n], n, LocalInfo(old, hb))]

\* The same scan without the seeding of lastSeenSeq at first discovery.
scanPeers_NoSeed(n, files, nodes) ==
    [p \in (DOMAIN nodes) \cup (DOMAIN files) |->
        IF p \notin DOMAIN files THEN nodes[p]
        ELSE LET info == IF p \notin DOMAIN nodes THEN NodeInfo ELSE nodes[p]
             IN [info EXCEPT !.heartbeat = files[p], !.isLocal = (p = n)]]

\* scanPeers of node n over the heartbeat files `files`, into the map `nodes`.
scanPeers(n, files, nodes) ==
    [p \in (DOMAIN nodes) \cup (DOMAIN files) |->
        IF p \notin DOMAIN files THEN nodes[p]
        ELSE LET isNew == p \notin DOMAIN nodes
                 info == IF isNew THEN NodeInfo ELSE nodes[p]
                 seen == [info EXCEPT !.heartbeat = files[p], !.isLocal = (p = n)]
             IN IF isNew /\ p # n
                THEN [seen EXCEPT !.lastSeenSeq = files[p].seq]
                ELSE seen]

\* The same loop body without the one-scan grace of a node found dead.
StalenessOf_NoGrace(info) ==
    IF info.isLocal THEN info
    ELSE
      LET a == IF info.heartbeat.seq = info.lastSeenSeq
               THEN [info EXCEPT !.staleCount = @ + 1]
               ELSE [info EXCEPT !.staleCount = 0, !.isDead = FALSE,
                                 !.reclaimEligible = FALSE]
          b == [a EXCEPT !.lastSeenSeq = a.heartbeat.seq]
          c == IF ~b.isDead /\ b.heartbeat.node_state = "stopped"
               THEN [b EXCEPT !.reclaimEligible = TRUE] ELSE b
      IN IF c.staleCount >= DeadThresholdScans
         THEN [c EXCEPT !.isDead = TRUE, !.reclaimEligible = TRUE]
         ELSE c

\* The body of detectStaleness's loop for one entry.
StalenessOf(info) ==
    IF info.isLocal THEN info
    ELSE
      LET a == IF info.heartbeat.seq = info.lastSeenSeq
               THEN [info EXCEPT !.staleCount = @ + 1]
               ELSE [info EXCEPT !.staleCount = 0, !.isDead = FALSE,
                                 !.reclaimEligible = FALSE]
          b == [a EXCEPT !.lastSeenSeq = a.heartbeat.seq]
          c == IF ~b.isDead /\ b.heartbeat.node_state = "stopped"
               THEN [b EXCEPT !.reclaimEligible = TRUE] ELSE b
      IN IF c.staleCount >= DeadThresholdScans
         THEN IF ~c.isDead
              THEN [c EXCEPT !.isDead = TRUE, !.reclaimEligible = FALSE]
              ELSE [c EXCEPT !.reclaimEligible = TRUE]
         ELSE c

detectStaleness(nodes) == [p \in DOMAIN nodes |-> StalenessOf(nodes[p])]

\* getNodeSnapshot of node n, as the DispatchManager reads it.
getNodeSnapshot(n) ==
    [p \in Nodes |->
        IF p \in DOMAIN m_nodes[n]
        THEN NodeView(m_nodes[n][p].isDead, m_nodes[n][p].reclaimEligible,
                      m_nodes[n][p].heartbeat.node_state,
                      m_nodes[n][p].heartbeat.render_state,
                      m_nodes[n][p].heartbeat.active_job)
        ELSE AbsentView]

\* startFarm's check for an existing coordinator, over the map `nodes`.
OtherCoordinatorActive(nodes) ==
    \E p \in DOMAIN nodes :
        ~nodes[p].isLocal /\ ~nodes[p].isDead /\ nodes[p].heartbeat.is_coordinator

\* DispatchManager::start on the coordinator.
DispatchStart ==
    /\ m_dispatchTables' = EmptyMap
    /\ m_assignments' = EmptyMap
    /\ m_dirtyTables' = {}
    /\ m_completionWritten' = {}
    /\ m_recovered' = FALSE

DispatchUnchanged ==
    UNCHANGED << m_dispatchTables, m_assignments, m_dirtyTables,
                 m_completionWritten, m_recovered >>

\* startFarm on node n. The heartbeat thread started by HeartbeatManager::start
\* may or may not have run its first scan when startFarm takes the snapshot.
StartFarm(n) ==
    \E scanned \in BOOLEAN :
      LET w == writeHeartbeat(n, 1)
          seen == IF scanned THEN detectStaleness(scanPeers(n, w.file, w.nodes))
                  ELSE w.nodes
          refused == m_config[n] /\ OtherCoordinatorActive(seen)
      IN /\ ~m_farmRunning[n]
         /\ \A p \in DOMAIN seen : seen[p].staleCount <= MaxStaleCount
         /\ m_nodes' = [m_nodes EXCEPT ![n] = seen]
         /\ m_farmError' = [m_farmError EXCEPT ![n] = refused]
         /\ m_farmRunning' = [m_farmRunning EXCEPT ![n] = ~refused]
         /\ hbFile' = IF refused
                      THEN MapPut(w.file, n, buildHeartbeat(n, 2, "stopped"))
                      ELSE w.file
         /\ IF n = Self /\ ~refused THEN DispatchStart ELSE DispatchUnchanged
         /\ UNCHANGED << m_lastWrite, m_nodeActive, dispatchJson, stateLog, jobs,
                         manifest, now, outstanding, dispatched, controls,
                         restarts, nFail, m_config, cvars, jvars, ovars >>

\* stopFarm on node n: DispatchManager::stop writes the dirty tables, and
\* HeartbeatManager::stop writes the final heartbeat.
StopFarm(n) ==
    /\ m_farmRunning[n]
    /\ restarts < MaxRestarts
    /\ restarts' = restarts + 1
    /\ m_farmRunning' = [m_farmRunning EXCEPT ![n] = FALSE]
    /\ m_farmError' = [m_farmError EXCEPT ![n] = FALSE]
    /\ hbFile' = MapPut(hbFile, n, buildHeartbeat(n, hbFile[n].seq + 1, "stopped"))
    /\ IF n = Self /\ m_config[n]
       THEN /\ dispatchJson' = WriteTables(dispatchJson, m_dispatchTables, m_dirtyTables)
            /\ m_dirtyTables' = {}
       ELSE UNCHANGED << dispatchJson, m_dirtyTables >>
    /\ UNCHANGED << m_dispatchTables, m_assignments, m_completionWritten,
                    m_recovered, m_lastWrite, m_nodeActive, stateLog, jobs,
                    manifest, now, outstanding, dispatched, controls,
                    nFail, m_nodes, m_config, cvars, jvars, ovars >>

\* The monitor process of node n ends without stopFarm (killed, crashed) and
\* is launched again: every manager is a fresh object, the files stay.
Relaunch(n) ==
    /\ restarts < MaxRestarts
    /\ restarts' = restarts + 1
    /\ m_farmRunning' = [m_farmRunning EXCEPT ![n] = FALSE]
    /\ m_farmError' = [m_farmError EXCEPT ![n] = FALSE]
    /\ m_nodes' = [m_nodes EXCEPT ![n] = EmptyMap]
    /\ IF n = Self
       THEN /\ DispatchStart
            /\ m_lastWrite' = 0
            /\ m_nodeActive' = TRUE
       ELSE /\ DispatchUnchanged
            /\ UNCHANGED << m_lastWrite, m_nodeActive >>
    /\ outstanding' = { e \in outstanding : e.node # n }
    /\ UNCHANGED << dispatchJson, stateLog, jobs, manifest, now, dispatched,
                    controls, nFail, hbFile, m_config, cvars, jvars, ovars >>

\* The heartbeat thread of node n: writeHeartbeat.
WriteHeartbeat(n) ==
    /\ m_farmRunning[n]
    /\ hbFile[n].seq < MaxSeq
    /\ \E w \in { writeHeartbeat(n, hbFile[n].seq + 1) } :
      /\ hbFile' = w.file
      /\ m_nodes' = [m_nodes EXCEPT ![n] = w.nodes]
      /\ UNCHANGED << dvars, cvars, jvars, ovars, m_farmRunning, m_farmError, m_config >>

\* The heartbeat thread of node n: scanPeers, then detectStaleness.
ScanPeers(n) ==
    /\ m_farmRunning[n]
    /\ \E seen \in { detectStaleness(scanPeers(n, hbFile, m_nodes[n])) } :
      /\ \A p \in DOMAIN seen : seen[p].staleCount <= MaxStaleCount
      /\ m_nodes' = [m_nodes EXCEPT ![n] = seen]
      /\ UNCHANGED << dvars, cvars, jvars, ovars, hbFile, m_farmRunning, m_farmError, m_config >>

\* MonitorApp::update on the running coordinator, with the snapshot of its
\* own HeartbeatManager, while no report and no local completion is queued.
FarmUpdate ==
    /\ m_farmRunning[Self]
    /\ m_config[Self]
    /\ UpdateWith(getNodeSnapshot(Self), << >>, << >>)
    /\ UNCHANGED nFail

NextFarm ==
    \/ \E n \in Nodes : StartFarm(n)
    \/ \E n \in Nodes : StopFarm(n)
    \/ \E n \in Nodes : Relaunch(n)
    \/ \E n \in Nodes : WriteHeartbeat(n)
    \/ \E n \in Nodes : ScanPeers(n)
    \/ FarmUpdate

\* One job of two chunks; the second node is a worker or, by its
\* configuration, a coordinator too.
FarmFarms == { "j1" :> Manifest(3, 4, 1, 1) }

FarmInit ==
    /\ hbFile = EmptyMap
    /\ m_nodes = [n \in Nodes |-> EmptyMap]
    /\ m_farmRunning = [n \in Nodes |-> FALSE]
    /\ m_farmError = [n \in Nodes |-> FALSE]
    /\ m_config \in { [n \in Nodes |-> n = Self], [n \in Nodes |-> TRUE] }

InitFarm == DispatchInit(FarmFarms) /\ CommandInit /\ OthersIdle
        /\ NoStateDir /\ FarmInit

SpecFarm == InitFarm /\ [][NextFarm]_vars

\* The node is running the farm: its heartbeat thread publishes heartbeats.
Alive(n) == n \in Nodes /\ m_farmRunning[n]

\* C9: a node configured as coordinator never gets its farm started while
\* another coordinator is alive and publishing heartbeats.
C9_SecondCoordinatorRefuses ==
    [][\A n \in Nodes :
         (m_config[n] /\ ~m_farmRunning[n] /\ m_farmRunning'[n])
         => ~\E p \in Nodes \ {n} : m_config[p] /\ Alive(p)]_vars

\* C10: at the first update() after a (re)start, of the chunks dispatch.json
\* holds as assigned, those of an alive worker stay assigned to it with an
\* entry in the assignment map, those of a worker the snapshot has as dead or
\* does not have become pending, every other chunk is loaded as it is, and
\* while the farm keeps running recovery does not run again.
C10_RecoveryKeepsAliveHolders ==
    [][/\ (~m_recovered /\ m_recovered')
          => \E r \in { recoverFromDisk(DMState, getNodeSnapshot(Self)) } :
               \A j \in DOMAIN dispatchJson : jobs[j].current_state = "active" =>
                 \A i \in 1..Len(dispatchJson[j]) :
                   LET c == dispatchJson[j][i]
                       w == c.assigned_to
                       view == getNodeSnapshot(Self)
                   IN /\ (c.state = "assigned" /\ Alive(w))
                         => /\ r.tables[j][i] = c
                            /\ w \in DOMAIN r.assign
                            /\ r.assign[w].jobId = j
                      /\ (c.state = "assigned"
                            /\ (w \notin Nodes \/ ~view[w].present \/ view[w].isDead))
                         => r.tables[j][i] = ChunkToPending(c)
                      /\ c.state # "assigned" => r.tables[j][i] = c
       /\ (m_recovered /\ m_farmRunning[Self] /\ m_farmRunning'[Self])
          => m_recovered']_vars

\* ------------------------------------------------------------------------
\* SpecCmd: the command inboxes
\* ------------------------------------------------------------------------
\* to_string(now) + "." + nodeId: the decimal digits of the clock, a dot, and
\* the sender's id, so two ids are equal exactly when both parts are.
MsgId(ts, nodeId) == << ts, nodeId >>

CommandTypes == {"assign_chunk", "chunk_completed"}

\* What safeReadJson and the json accessors make of a file's content.
FileKinds == {"command", "notype", "badfield", "garbage"}

CommandFile(kind, type, from, msgId, call) ==
    [kind |-> kind, type |-> type, from |-> from, msg_id |-> msgId, call |-> call]

\* sendCommand of node `from` to `target`: the file replaces one of its name.
SendCommand(from, target, type) ==
    LET msgId == MsgId(sysClock, from)
        call == Len(sentIds) + 1
    IN /\ from # target
       /\ Len(sentIds) < MaxSends
       /\ inbox' = [inbox EXCEPT ![target] =
                      MapPut(@, msgId, CommandFile("command", type, from, msgId, call))]
       /\ sentIds' = Append(sentIds, msgId)
       /\ enqueued' = Append(enqueued, 0)
       /\ UNCHANGED << sysClock, processed, m_actionQueue, polls, dvars, fvars, jvars, ovars >>

\* system_clock moves on by a millisecond.
ClockTick ==
    /\ sysClock < MaxClock
    /\ sysClock' = sysClock + 1
    /\ UNCHANGED << inbox, processed, m_actionQueue, sentIds, enqueued, polls,
                    dvars, fvars, jvars, ovars >>

\* A .json file that is not a command of this program's making reaches the
\* inbox through the shared folder: not yet fully synced (unparseable), with
\* a "type" that is not a string, or with no "type".
PlaceFile(target, kind) ==
    LET name == MsgId(0, "ext")
    IN /\ name \notin DOMAIN inbox[target]
       /\ name \notin DOMAIN processed[target]
       /\ inbox' = [inbox EXCEPT ![target] =
                      MapPut(@, name, CommandFile(kind, "", "", name, 0))]
       /\ UNCHANGED << sysClock, processed, m_actionQueue, sentIds, enqueued,
                       polls, dvars, fvars, jvars, ovars >>

\* j.value(key, default) of the json accessors.
Field(file, key, default) == IF key \in DOMAIN file THEN file[key] ELSE default

\* std::sort of the file names.
IdRank(id) == CASE id = "c0" -> 1 [] id = "ext" -> 2 [] OTHER -> 3

NameBefore(a, b) == a[1] < b[1] \/ (a[1] = b[1] /\ IdRank(a[2]) < IdRank(b[2]))

SortedNames(S) ==
    CHOOSE q \in [1..Cardinality(S) -> S] :
        \A a, b \in 1..Cardinality(S) : a < b => NameBefore(q[a], q[b])

\* What the file system lets pollInbox do with one file it has read:
\* rename it, or fail that and remove it, or fail both.
IoOutcomes(file) ==
    CASE file.kind = "garbage" -> {"stays"}
      [] file.kind = "badfield" -> {"moved", "stays"}
      [] OTHER -> {"moved", "removed", "stays"}

\* The body of pollInbox's loop, from file k of `names` on.
RECURSIVE PollFiles(_, _, _, _)
PollFiles(st, names, io, k) ==
    IF k > Len(names) THEN st
    ELSE
      LET name == names[k]
          file == st.inbox[name]
          action == [type |-> file.type, fromNodeId |-> file.from,
                     msgId |-> file.msg_id,
                     jobId |-> Field(file, "job_id", ""),
                     reason |-> Field(file, "reason", ""),
                     frameStart |-> Field(file, "frame_start", 0),
                     frameEnd |-> Field(file, "frame_end", 0)]
          queued == IF file.kind = "command"
                    THEN [st EXCEPT !.queue = Append(@, action),
                                    !.enq[file.call] = @ + 1]
                    ELSE st
          moved == [queued EXCEPT !.inbox = MapErase(@, name),
                                  !.processed = MapPut(@, name, file)]
          removed == [queued EXCEPT !.inbox = MapErase(@, name)]
      IN IF file.kind = "garbage"
         THEN PollFiles(st, names, io, k + 1)
         ELSE PollFiles(CASE io[name] = "moved" -> moved
                          [] io[name] = "removed" -> removed
                          [] OTHER -> queued,
                        names, io, k + 1)

pollInbox(n, io) ==
    PollFiles([inbox |-> inbox[n], processed |-> processed[n],
               queue |-> m_actionQueue[n], enq |-> enqueued],
              SortedNames(DOMAIN inbox[n]), io, 1)

\* The command thread of node n: pollInbox.
PollInbox(n) ==
    /\ polls[n] < MaxPolls
    /\ \E io \in { f \in [DOMAIN inbox[n] -> {"moved", "removed", "stays"}] :
                     \A name \in DOMAIN inbox[n] :
                        f[name] \in IoOutcomes(inbox[n][name]) } :
         \E r \in { pollInbox(n, io) } :
           /\ \A call \in 1..Len(r.enq) : r.enq[call] <= MaxEnqueued
           /\ inbox' = [inbox EXCEPT ![n] = r.inbox]
           /\ processed' = [processed EXCEPT ![n] = r.processed]
           /\ m_actionQueue' = [m_actionQueue EXCEPT ![n] = r.queue]
           /\ enqueued' = r.enq
           /\ polls' = [polls EXCEPT ![n] = @ + 1]
           /\ UNCHANGED << sysClock, sentIds, dvars, fvars, jvars, ovars >>

\* popActions in MonitorApp::update of node n.
PopActions(n) ==
    /\ m_actionQueue[n] # << >>
    /\ m_actionQueue' = [m_actionQueue EXCEPT ![n] = << >>]
    /\ UNCHANGED << sysClock, inbox, processed, sentIds, enqueued, polls,
                    dvars, fvars, jvars, ovars >>

NextCmd ==
    \/ \E from \in Nodes, target \in Nodes, type \in CommandTypes :
         SendCommand(from, target, type)
    \/ ClockTick
    \/ \E target \in Nodes, kind \in FileKinds \ {"command"} : PlaceFile(target, kind)
    \/ \E n \in Nodes : PollInbox(n)
    \/ \E n \in Nodes : PopActions(n)

InitCmd == DispatchInit(FarmFarms) /\ CommandInit /\ OthersIdle
        /\ NoStateDir /\ HeartbeatInit

SpecCmd == InitCmd /\ [][NextCmd]_vars

\* C6: no two sendCommand calls produce the same msg_id.
C6_MsgIdsDistinct ==
    \A a, b \in 1..Len(sentIds) : a # b => sentIds[a] # sentIds[b]

\* The command file written by sendCommand call `call` is in some inbox.
InInbox(call) ==
    \E n \in Nodes : \E name \in DOMAIN inbox[n] : inbox[n][name].call = call

\* C7: a command written to an inbox is enqueued as an Action at most once,
\* and exactly once by the time its file has left the inbox.
C7_EnqueuedExactlyOnce ==
    \A call \in 1..Len(enqueued) :
        /\ enqueued[call] <= 1
        /\ ~InInbox(call) => enqueued[call] = 1

\* C8: every file in the inbox when pollInbox runs is out of the inbox after
\* it; the ones that do not parse are in processed/.
C8_PollEmptiesInbox ==
    [][\A n \in Nodes : polls'[n] # polls[n] =>
         \A name \in DOMAIN inbox[n] :
            /\ name \notin DOMAIN inbox'[n]
            /\ inbox[n][name].kind \in {"garbage", "badfield"}
               => name \in DOMAIN processed'[n]]_vars

\* ------------------------------------------------------------------------
\* SpecLive: the farm under fair scheduling
\* ------------------------------------------------------------------------
\* The heartbeat of node n as the coordinator's scans have it once they have
\* caught up with the node: a node whose process runs is alive and shows the
\* render state MonitorApp::update synced into it, a node whose process is
\* gone is dead and reclaim-eligible.
LiveView(n) ==
    LET hb == buildHeartbeat(n, 1, "active")
    IN IF m_farmRunning[n]
       THEN NodeView(FALSE, FALSE, hb.node_state, hb.render_state, hb.active_job)
       ELSE NodeView(TRUE, TRUE, hb.node_state, hb.render_state, hb.active_job)

\* The snapshots update() can read: the first one after a start may still
\* miss a worker the fresh HeartbeatManager has not scanned yet.
LiveSnapshots ==
    { [n \in Nodes |-> IF n \in missing THEN AbsentView ELSE LiveView(n)] :
        missing \in IF m_recovered THEN { {} } ELSE SUBSET Workers }

\* update() while no report and no local completion is queued.
IdleUpdate ==
    \E nodes \in LiveSnapshots :
      /\ UpdateWith(nodes, << >>, << >>)
      /\ UNCHANGED nFail

\* update() after a running worker's chunk_completed / chunk_failed was popped.
ReportUpdate ==
    \E nodes \in LiveSnapshots, reports \in ReportBatches \ { << >> } :
      /\ m_farmRunning[reports[1].fromNodeId]
      /\ UpdateWith(nodes, reports, << >>)
      /\ UNCHANGED nFail

\* update() after the coordinator's own render ended.
LocalUpdate ==
    \E nodes \in LiveSnapshots, local \in LocalBatches \ { << >> } :
      /\ UpdateWith(nodes, << >>, local)
      /\ UNCHANGED nFail

\* The process of worker w ends: its render and its unsent report go with it.
WorkerDies(w) ==
    /\ m_farmRunning[w]
    /\ m_farmRunning' = [m_farmRunning EXCEPT ![w] = FALSE]
    /\ outstanding' = { e \in outstanding : e.node # w }
    /\ UNCHANGED << m_dispatchTables, m_assignments, m_completionWritten,
                    m_dirtyTables, m_recovered, m_lastWrite, m_nodeActive,
                    dispatchJson, stateLog, jobs, manifest, now, dispatched,
                    controls, restarts, nFail, cvars, jvars, ovars, hbFile, m_nodes,
                    m_farmError, m_config >>

\* An assign_chunk command never reaches the render coordinator of the running
\* worker w (its file is replaced in the inbox, or never synced): the worker
\* stays idle and answers nothing.
NeverAcknowledged(w) ==
    \E e \in outstanding :
      /\ e.node = w
      /\ m_farmRunning[w]
      /\ outstanding' = outstanding \ {e}
      /\ UNCHANGED << m_dispatchTables, m_assignments, m_completionWritten,
                      m_dirtyTables, m_recovered, m_lastWrite, m_nodeActive,
                      dispatchJson, stateLog, jobs, manifest, now, dispatched,
                      controls, restarts, nFail, cvars, jvars, ovars, fvars >>

\* Time stamps `shift` ms further in the past, not before 0.
Older(t, shift) == Max(0, t - shift)

OlderChunks(chunks, shift) ==
    [i \in 1..Len(chunks) |->
        [chunks[i] EXCEPT !.assigned_at_ms = Older(@, shift)]]

\* The clock moves on by TickMs. Only differences of time stamps are ever
\* read (age > StaleMs, now - m_lastWrite >= WRITE_THROTTLE_MS), and both
\* thresholds are below MaxNow: past MaxNow the clock is held and every
\* stamp is moved back by TickMs instead, so that ages saturate.
Elapse ==
    LET shift == IF now + TickMs > MaxNow THEN TickMs ELSE 0
    IN /\ now' = now + TickMs - shift
       /\ m_lastWrite' = Older(m_lastWrite, shift)
       /\ m_assignments' = [n \in DOMAIN m_assignments |->
                              [m_assignments[n] EXCEPT
                                 !.assignedAtMs = Older(@, shift)]]
       /\ m_dispatchTables' = [j \in DOMAIN m_dispatchTables |->
                                 OlderChunks(m_dispatchTables[j], shift)]
       /\ dispatchJson' = [j \in DOMAIN dispatchJson |->
                             OlderChunks(dispatchJson[j], shift)]
       /\ UNCHANGED << m_completionWritten, m_dirtyTables, m_recovered,
                       m_nodeActive, stateLog, jobs, manifest, outstanding,
                       dispatched, controls, restarts, nFail, cvars, jvars, ovars, fvars >>

NextLive ==
    \/ IdleUpdate
    \/ ReportUpdate
    \/ LocalUpdate
    \/ \E w \in Workers : WorkerDies(w)
    \/ \E w \in Workers : NeverAcknowledged(w)
    \/ Elapse
    \/ Restart
    \/ JobScan

LiveFarms == { "j1" :> Manifest(4, 4, 1, 1), "j1" :> Manifest(3, 4, 1, 1) }

LiveInit ==
    /\ hbFile = EmptyMap
    /\ m_nodes = EmptyMap
    /\ m_farmRunning = [n \in Nodes |-> TRUE]
    /\ m_farmError = [n \in Nodes |-> FALSE]
    /\ m_config = [n \in Nodes |-> n = Self]

InitLive == DispatchInit(LiveFarms) /\ CommandInit /\ OthersIdle
        /\ NoStateDir /\ LiveInit

\* update() with these inputs would run and leave the state changed.
CanUpdate(nodes, reports, local) ==
    \E r \in { UpdateResult(nodes, reports, local) } :
      LET write == r.dirty # {} /\ now - m_lastWrite >= WRITE_THROTTLE_MS
      IN /\ RetryCapOK(r.tables)
         /\ dispatched + Cardinality(r.out) <= MaxDispatches
         /\ \/ ~m_recovered
            \/ r.tables # m_dispatchTables
            \/ r.assign # m_assignments
            \/ r.done # m_completionWritten
            \/ r.log # stateLog
            \/ r.out # {}
            \/ Answered(reports, local) # {}
            \/ r.dirty # m_dirtyTables
            \/ write

CanIdleUpdate == \E nodes \in LiveSnapshots : CanUpdate(nodes, << >>, << >>)

CanReportUpdate ==
    \E nodes \in LiveSnapshots, reports \in ReportBatches \ { << >> } :
      /\ m_farmRunning[reports[1].fromNodeId]
      /\ CanUpdate(nodes, reports, << >>)

CanLocalUpdate ==
    \E nodes \in LiveSnapshots, local \in LocalBatches \ { << >> } :
      CanUpdate(nodes, << >>, local)

\* The main loop keeps calling update(), reports that were sent are popped,
\* the coordinator's own render ends, the job scan runs, and time passes:
\* weak fairness of each, with the enabling condition of the three kinds of
\* update() written out.
LiveFairness ==
    /\ []<>(~CanIdleUpdate) \/ []<><<IdleUpdate>>_vars
    /\ []<>(~CanReportUpdate) \/ []<><<ReportUpdate>>_vars
    /\ []<>(~CanLocalUpdate) \/ []<><<LocalUpdate>>_vars
    /\ WF_vars(JobScan)
    /\ WF_vars(Elapse)

SpecLive == InitLive /\ [][NextLive]_vars /\ LiveFairness

\* The state of chunk i of job j in the scheduler's dispatch table.
ChunkState(j, i) ==
    IF j \in DOMAIN m_dispatchTables /\ i <= Len(m_dispatchTables[j])
    THEN m_dispatchTables[j][i].state
    ELSE "none"

\* C11: under fair scheduling no chunk stays assigned forever: an assigned
\* chunk eventually becomes completed, failed or pending.
C11_AssignedEventuallyLeaves ==
    \A j \in Jobs : \A i \in 1..MaxFrame :
        (ChunkState(j, i) = "assigned") ~> (ChunkState(j, i) # "assigned")

\* ------------------------------------------------------------------------
\* SpecStale: the scheduler as time passes, with the operator's chunk controls
\* ------------------------------------------------------------------------
NextStale ==
    \/ Update
    \/ Elapse
    \/ ReassignChunk
    \/ RetryFailedChunk

StaleFarms == { "j1" :> Manifest(4, 4, 1, 2), "j1" :> Manifest(4, 4, 1, 1) }

InitStale == DispatchInit(StaleFarms) /\ CommandInit /\ OthersIdle
        /\ NoStateDir /\ HeartbeatInit

SpecStale == InitStale /\ [][NextStale]_vars

\* The scheduler's state when update() reaches detectDeadWorkers.
BeforeDetect(nodes, reports, local) ==
    LET s1 == IF m_recovered THEN DMState ELSE recoverFromDisk(DMState, nodes)
    IN processWorkerReports(processLocalCompletions(EnsureTables(s1, 1), local),
                            reports)

\* The chunks of the table that assignment `a` holds: its range, assigned.
HeldChunks(tables, a) ==
    IF a.jobId \notin DOMAIN tables THEN {}
    ELSE { i \in 1..Len(tables[a.jobId]) :
             /\ tables[a.jobId][i].frame_start = a.frame_start
             /\ tables[a.jobId][i].frame_end = a.frame_end
             /\ tables[a.jobId][i].state = "assigned" }

\* What the claim says of one call of detectDeadWorkers: from scheduler state
\* s with node snapshot `nodes` to scheduler state r.
ReclaimsAsStated(s, nodes, r) ==
    /\ \A n \in DOMAIN s.assign :
         LET a == s.assign[n]
             dead == ~nodes[n].present
                       \/ (nodes[n].isDead /\ nodes[n].reclaimEligible)
             rendering == /\ nodes[n].present
                          /\ nodes[n].render_state = "rendering"
                          /\ nodes[n].active_job = a.jobId
             stale == now - a.assignedAtMs > Max(60000, DeadThresholdScans
                                                 * HeartbeatIntervalMs * 2)
             due == n # Self /\ (dead \/ (stale /\ ~rendering))
         IN /\ n \notin DOMAIN r.assign <=> due
            /\ ~due => r.assign[n] = a
            /\ due /\ HeldChunks(s.tables, a) # {} =>
                 LET i == SetMin(HeldChunks(s.tables, a))
                     c == s.tables[a.jobId][i]
                     d == r.tables[a.jobId][i]
                 IN /\ d.retry_count = c.retry_count + 1
                    /\ d.state = IF d.retry_count < LookupMaxRetries(a.jobId)
                                 THEN "pending" ELSE "failed"
    /\ DOMAIN r.assign \subseteq DOMAIN s.assign
    \* nothing else moves: a chunk differs only if a due assignment held it
    /\ \A j \in DOMAIN s.tables : \A i \in 1..Len(s.tables[j]) :
         r.tables[j][i] # s.tables[j][i] =>
           \E n \in (DOMAIN s.assign) \ DOMAIN r.assign :
              /\ s.assign[n].jobId = j
              /\ i \in HeldChunks(s.tables, s.assign[n])

Scanned(n, p) ==
    /\ p \in DOMAIN m_nodes[n]
    /\ p \in DOMAIN m_nodes'[n]
    /\ m_nodes'[n][p] # m_nodes[n][p]

\* The heartbeat file the scan reads shows the seq the last scan saw.
NoAdvance(n, p) == hbFile[p].seq = m_nodes[n][p].lastSeenSeq

Discovered(n, p) == p \notin DOMAIN m_nodes[n] /\ p \in DOMAIN m_nodes'[n]

\* What every scan does, whatever the claim about reclaim_eligible: a peer is
\* dead at first discovery, turns alive only on a scan that finds its seq
\* changed, and a scan that finds no change counts one more stale scan.
AliveOnlyAfterSeqChange(n, p) ==
    /\ Discovered(n, p) => m_nodes'[n][p].isDead
    /\ Scanned(n, p) =>
         /\ (m_nodes[n][p].isDead /\ ~m_nodes'[n][p].isDead) => ~NoAdvance(n, p)
         /\ NoAdvance(n, p)
            => m_nodes'[n][p].staleCount = m_nodes[n][p].staleCount + 1
         /\ ~NoAdvance(n, p)
            => (m_nodes'[n][p].staleCount = 0 /\ ~m_nodes'[n][p].isDead)

C15_SeqStrictlyIncreasing ==
    [][\A n \in Nodes :
         (n \in DOMAIN hbFile /\ hbFile'[n] # hbFile[n])
         => hbFile'[n].seq > hbFile[n].seq]_vars

\* ------------------------------------------------------------------------
\* SpecAssign: assignWork over jobs that differ in priority, OS and tags
\* ------------------------------------------------------------------------
ManifestFor(fs, fe, cs, mr, cmd, tags) ==
    [Manifest(fs, fe, cs, mr) EXCEPT !.cmd = cmd, !.tags_required = tags]

\* Two one-chunk jobs: either j1 has no command for linux (w1's OS), or j2
\* requires the tag only c0 has.
AssignFarms ==
    { ("j1" :> ManifestFor(1, 1, 1, 1, {"windows"}, {}))
      @@ ("j2" :> ManifestFor(2, 2, 1, 1, {"windows", "linux"}, {})),
      ("j1" :> ManifestFor(1, 1, 1, 1, {"windows", "linux"}, {}))
      @@ ("j2" :> ManifestFor(2, 2, 1, 1, {"windows", "linux"}, {"gpu"})) }

\* The priorities the jobs are submitted with.
AssignPriorities == {50, 80}

\* What std::sort by current_priority alone can leave of the active jobs:
\* any arrangement with no job before one of higher priority (std::sort is
\* not a stable sort).
StdSortOutcomes ==
    LET A == { j \in DOMAIN jobs : IsActiveJob(j) }
        n == Cardinality(A)
    IN { q \in [1..n -> A] :
           /\ \A a, b \in 1..n : a # b => q[a] # q[b]
           /\ \A a, b \in 1..n :
                 a < b => jobs[q[a]].current_priority >= jobs[q[b]].current_priority }

\* update() up to the call of assignWork.
BeforeAssign(nodes, reports, local) ==
    checkJobCompletions(detectDeadWorkers(BeforeDetect(nodes, reports, local), nodes))

\* update() from there on.
AfterAssign(s6, nodes, activeJobs) ==
    IF m_nodeActive THEN assignWorkIn(s6, nodes, activeJobs) ELSE s6

AssignUpdate ==
    \E nodes \in NodeSnapshots, reports \in ReportBatches,
       local \in LocalBatches, activeJobs \in StdSortOutcomes :
      \E r \in { AfterAssign(BeforeAssign(nodes, reports, local), nodes, activeJobs) } :
        /\ UpdateStep(r, reports, local)
        /\ UNCHANGED nFail

NextAssign == AssignUpdate \/ StopJob \/ SetNodeState \/ JobScan

InitAssign ==
    DispatchInitAt(AssignFarms, AssignPriorities) /\ CommandInit /\ OthersIdle
        /\ NoStateDir /\ HeartbeatInit

SpecAssign == InitAssign /\ [][NextAssign]_vars

\* ------------------------------------------------------------------------
\* Properties of assignWork (SpecAssign)
\* ------------------------------------------------------------------------
\* Chunk i of job j is assigned to worker w in scheduler state st.
ChunkGivenTo(st, j, i, w) ==
    /\ j \in DOMAIN st.tables
    /\ i <= Len(st.tables[j])
    /\ st.tables[j][i].state = "assigned"
    /\ st.tables[j][i].assigned_to = w

\* What the claim asks of worker w and job j before a chunk of j goes to w.
MayBeGiven(s6, nodes, w, j) ==
    /\ m_nodeActive
    /\ nodes[w].present /\ ~nodes[w].isDead
    /\ nodes[w].node_state = "active"
    /\ nodes[w].render_state = "idle"
    /\ w \notin DOMAIN s6.assign
    /\ jobs[j].current_state = "active"
    /\ HeartbeatOS[w] \in manifest[j].cmd
    /\ manifest[j].tags_required \subseteq HeartbeatTags[w]

\* C16: assignWork moves a chunk to assigned for worker W, or enters W in the
\* assignment map, only if in the snapshots of that cycle W is alive, active,
\* idle and without an assignment entry, the job is active, its manifest has
\* a command for W's OS and W has every required tag; nothing is assigned
\* while the coordinator's node is not active.
C16_AssignsOnlyToEligibleIdle ==
    \A nodes \in NodeSnapshots, reports \in ReportBatches, local \in LocalBatches :
      \E s6 \in { BeforeAssign(nodes, reports, local) } :
        \A activeJobs \in StdSortOutcomes :
          \E r \in { AfterAssign(s6, nodes, activeJobs) } :
            /\ \A w \in Nodes, j \in DOMAIN r.tables :
                 \A i \in 1..Len(r.tables[j]) :
                    ChunkGivenTo(r, j, i, w) /\ ~ChunkGivenTo(s6, j, i, w)
                      => MayBeGiven(s6, nodes, w, j)
            /\ \A w \in DOMAIN r.assign :
                 (w \notin DOMAIN s6.assign \/ s6.assign[w] # r.assign[w])
                   => MayBeGiven(s6, nodes, w, r.assign[w].jobId)
            /\ ~m_nodeActive => r = s6

\* Both nodes hold a chunk, c0 the one of the job that requires its tag.
C16_Witness ==
    /\ manifest["j2"].tags_required = {"gpu"}
    /\ Self \in DOMAIN m_assignments /\ m_assignments[Self].jobId = "j2"
    /\ "w1" \in DOMAIN m_assignments /\ m_assignments["w1"].jobId = "j1"
    /\ ChunkGivenTo(DMState, "j1", 1, "w1")
    /\ ChunkGivenTo(DMState, "j2", 1, Self)

\* The active jobs that are eligible for worker w and have a pending chunk.
Servable(st, w) ==
    { j \in DOMAIN jobs :
        /\ jobs[j].current_state = "active"
        /\ HeartbeatOS[w] \in manifest[j].cmd
        /\ manifest[j].tags_required \subseteq HeartbeatTags[w]
        /\ j \in DOMAIN st.tables
        /\ \E i \in 1..Len(st.tables[j]) : st.tables[j][i].state = "pending" }

\* Job a comes before job b in (priority descending, submitted_at_ms
\* ascending) order.
ServedBefore(a, b) ==
    \/ jobs[a].current_priority > jobs[b].current_priority
    \/ /\ jobs[a].current_priority = jobs[b].current_priority
       /\ JobSubmittedAtMs[a] < JobSubmittedAtMs[b]

\* What the claim says of serving idle worker w: from scheduler state st to
\* scheduler state r.
ServedAsStated(st, w, r) ==
    IF Servable(st, w) = {} THEN r = st
    ELSE \E j \in Servable(st, w) :
           /\ \A other \in Servable(st, w) \ {j} : ServedBefore(j, other)
           /\ \E i \in 1..Len(st.tables[j]) :
                /\ st.tables[j][i].state = "pending"
                /\ \A h \in 1..(i - 1) : st.tables[j][h].state # "pending"
                /\ ChunkGivenTo(r, j, i, w)
                /\ w \in DOMAIN r.assign
                /\ r.assign[w].jobId = j
                /\ r.assign[w].frame_start = st.tables[j][i].frame_start
                /\ r.assign[w].frame_end = st.tables[j][i].frame_end

\* C17: in each cycle every idle worker is given the first pending chunk of
\* the first job, in (priority descending, submitted_at_ms ascending) order,
\* that is active, eligible for the worker and has a pending chunk.
C17_PriorityThenFifo ==
    \A nodes \in NodeSnapshots, reports \in ReportBatches, local \in LocalBatches :
      \E s6 \in { BeforeAssign(nodes, reports, local) } :
        \A activeJobs \in StdSortOutcomes :
          \E idle \in { IdleWorkers(s6, nodes) } :
            \A k \in 1..Len(idle) :
              \E st \in { AssignAll(s6, SubSeq(idle, 1, k - 1), activeJobs, 1) } :
                ServedAsStated(st, idle[k], AssignStep(st, idle[k], activeJobs))

\* ------------------------------------------------------------------------
\* Properties of checkJobCompletions (SpecLive)
\* ------------------------------------------------------------------------
\* C18: a completed state entry is appended for a job (and the job recorded
\* in m_completionWritten) only when the job snapshot shows it active and
\* every chunk of its table is completed, and no such entry was appended for
\* the job before.
C18_CompletedEntryOnce ==
    [][\A j \in DOMAIN jobs :
         (j \in m_completionWritten' /\ j \notin m_completionWritten)
           => /\ jobs[j].current_state = "active"
              /\ j \in DOMAIN m_dispatchTables'
              /\ AllDone(m_dispatchTables'[j])
              /\ stateLog[j].state # "completed"]_vars

\* ------------------------------------------------------------------------
\* SpecJobs: the state directories and JobManager's scan
\* ------------------------------------------------------------------------
\* The decimal digits of n, as character codes.
RECURSIVE to_string(_)
to_string(n) ==
    IF n < 10 THEN << 48 + n >> ELSE to_string(n \div 10) \o << 48 + (n % 10) >>

\* The first character of a node id.
NodeChar(nodeId) == IF nodeId = "c0" THEN 99 ELSE 119

\* to_string(ts) + "_" + nodeId + ".json", or to_string(ts) + ".json" for
\* the completion entry, as character codes up to the character that tells
\* two names apart ('.' is 46, '_' is 95).
StateFileName(ts, nodeId) ==
    to_string(ts) \o (IF nodeId = "" THEN << 46 >> ELSE << 95, NodeChar(nodeId) >>)

\* operator< of std::string.
StringLess(a, b) ==
    \E k \in 1..(Len(b)) :
        /\ \A h \in 1..(k - 1) : h <= Len(a) /\ a[h] = b[h]
        /\ (k > Len(a) \/ a[k] < b[k])

JobStateEntry(state, priority, nodeId, ts) ==
    [state |-> state, priority |-> priority, node_id |-> nodeId,
     timestamp_ms |-> ts]

\* system_clock::now() in ms, later than EpochMs, when the jobs were
\* submitted; time stamps keep one number of digits, as the 13-digit stamps
\* of these decades do.
ClockMs == EpochMs + 1 + sysClock

JobsUnchanged ==
    UNCHANGED << m_dispatchTables, m_assignments, m_completionWritten,
                 m_dirtyTables, m_recovered, m_lastWrite, m_nodeActive,
                 dispatchJson, stateLog, manifest, now, outstanding,
                 dispatched, controls, restarts, nFail, cvars, fvars, ovars >>

\* JobManager::writeStateEntry on node n, as pauseJob, resumeJob and
\* cancelJob call it: a file of that name is replaced.
writeStateEntry(n, jobId, state) ==
    LET priority == IF state = "cancelled" THEN 0 ELSE jobs[jobId].current_priority
    IN /\ stateDir' = [stateDir EXCEPT ![jobId] =
                          MapPut(@, StateFileName(ClockMs, n),
                                 JobStateEntry(state, priority, n, ClockMs))]
       /\ UNCHANGED << jobs, scanTs >>
       /\ JobsUnchanged

\* The file checkJobCompletions writes for a job its snapshot shows active.
CompletionEntry(jobId) ==
    /\ jobs[jobId].current_state = "active"
    /\ stateDir' = [stateDir EXCEPT ![jobId] =
                       MapPut(@, StateFileName(ClockMs, ""),
                              JobStateEntry("completed", 0, Self, ClockMs))]
    /\ UNCHANGED << jobs, scanTs >>
    /\ JobsUnchanged

\* The names a state file can have.
StateFileNames ==
    { StateFileName(EpochMs + c, n) : c \in 0..(MaxClock + 1), n \in Nodes \cup {""} }

\* std::sort of the state files by file name, descending.
RECURSIVE SortDescending(_)
SortDescending(names) ==
    IF names = {} THEN << >>
    ELSE LET first == CHOOSE f \in names :
                         \A g \in names \ {f} : StringLess(g, f)
         IN << first >> \o SortDescending(names \ {first})

\* The entry scanImpl takes for a job: the first file, in that order, that
\* safeReadJson returns; none leaves the defaults of JobInfo.
FirstValid(dir, unreadable) ==
    LET files == SortDescending(DOMAIN dir)
        K == { k \in 1..Len(files) : files[k] \notin unreadable }
    IN IF K = {} THEN JobStateEntry("active", 50, "", 0)
       ELSE dir[files[SetMin(K)]]

\* JobManager::scanImpl: `unreadable` are the files that safeReadJson cannot
\* open or parse at this scan (held open by another process, not yet
\* written out by the file sync).
scanImpl(unreadable) ==
    /\ jobs' = [j \in DOMAIN jobs |->
                  LET e == FirstValid(stateDir[j], unreadable[j])
                  IN [current_state |-> e.state, current_priority |-> e.priority]]
    /\ scanTs' = [j \in DOMAIN jobs |->
                    FirstValid(stateDir[j], unreadable[j]).timestamp_ms]
    /\ UNCHANGED stateDir
    /\ JobsUnchanged

\* A scan at which every file can be read, or all but one.
ScanJobs ==
    \E unreadable \in [DOMAIN jobs -> { {} } \cup { {f} : f \in StateFileNames }] :
        /\ \A j \in DOMAIN jobs : unreadable[j] \subseteq DOMAIN stateDir[j]
        /\ scanImpl(unreadable)

NextJobs ==
    \/ \E n \in Nodes, j \in DOMAIN jobs, state \in {"paused", "active", "cancelled"} :
         writeStateEntry(n, j, state)
    \/ \E j \in DOMAIN jobs : CompletionEntry(j)
    \/ ScanJobs
    \/ ClockTick

\* Each job as submitJob leaves it, and as the first scan finds it.
JobsDirInit ==
    /\ stateDir = [j \in DOMAIN manifest |->
                     StateFileName(EpochMs, Self)
                       :> JobStateEntry("active", 50, Self, EpochMs)]
    /\ scanTs = [j \in DOMAIN manifest |-> EpochMs]

JobsFarms == { "j1" :> Manifest(4, 4, 1, 1) }

InitJobs == DispatchInit(JobsFarms) /\ CommandInit /\ OthersIdle
        /\ JobsDirInit /\ HeartbeatInit

SpecJobs == InitJobs /\ [][NextJobs]_vars

\* ------------------------------------------------------------------------
\* Properties of JobManager's scan (SpecJobs)
\* ------------------------------------------------------------------------
\* The entries of a directory with the greatest ts_ms.
NewestEntries(dir) ==
    { dir[f] : f \in { g \in DOMAIN dir :
                         \A h \in DOMAIN dir :
                            dir[h].timestamp_ms <= dir[g].timestamp_ms } }

\* C19: a scan sets current_state and current_priority of every job from the
\* state entry with the greatest ts_ms among the entries under state/, and
\* from one scan to the next the observed state does not go back to the
\* state of an entry with a smaller ts_ms.
C19_ScanTakesNewestNeverRegresses ==
    [][\A j \in DOMAIN jobs :
         (jobs'[j] # jobs[j] \/ scanTs'[j] # scanTs[j])
           => /\ \E e \in NewestEntries(stateDir[j]) :
                   /\ jobs'[j].current_state = e.state
                   /\ jobs'[j].current_priority = e.priority
              /\ scanTs'[j] < scanTs[j]
                   => jobs'[j].current_state = jobs[j].current_state]_vars

\* ------------------------------------------------------------------------
\* Properties of handleJobStateChange (SpecAssign)
\* ------------------------------------------------------------------------
\* Node n has an entry of job j in the assignment map of st.
HoldsJob(st, n, j) == n \in DOMAIN st.assign /\ st.assign[n].jobId = j

\* What the claim says of handleJobStateChange(j, newState) with newState
\* paused or cancelled: from scheduler state st to h.state, sending h.sent.
StopsAsStated(st, j, newState, h) ==
    LET r == h.state
    IN /\ \A n \in Nodes :
            Cardinality({ k \in 1..Len(h.sent) : h.sent[k].target = n })
              = IF n # Self /\ HoldsJob(st, n, j) THEN 1 ELSE 0
       /\ \A k \in 1..Len(h.sent) :
            /\ h.sent[k].target \in Nodes
            /\ h.sent[k].type = "abort_chunk"
            /\ h.sent[k].jobId = j
            /\ h.sent[k].reason
                 = (IF newState = "paused" THEN "job_paused" ELSE "job_cancelled")
       /\ DOMAIN r.assign = { n \in DOMAIN st.assign : st.assign[n].jobId # j }
       /\ \A n \in DOMAIN r.assign : r.assign[n] = st.assign[n]
       /\ DOMAIN r.tables = DOMAIN st.tables
       /\ \A other \in (DOMAIN st.tables) \ {j} : r.tables[other] = st.tables[other]
       /\ j \in DOMAIN st.tables =>
            /\ Len(r.tables[j]) = Len(st.tables[j])
            /\ \A i \in 1..Len(st.tables[j]) :
                 IF st.tables[j][i].state = "assigned"
                 THEN /\ r.tables[j][i].state = "pending"
                      /\ r.tables[j][i].retry_count = st.tables[j][i].retry_count
                      /\ r.tables[j][i].frame_start = st.tables[j][i].frame_start
                      /\ r.tables[j][i].frame_end = st.tables[j][i].frame_end
                 ELSE r.tables[j][i] = st.tables[j][i]

\* C20: handleJobStateChange(job, paused or cancelled) sends exactly one
\* abort_chunk with reason job_paused or job_cancelled to each remote worker
\* that has an assignment-map entry of the job, removes every entry of the
\* job from the map and sets every assigned chunk of the job to pending;
\* completed and failed chunks, every retry_count and the tables and
\* assignments of the other jobs stay as they are.
C20_StopJobFrameEffect ==
    \A j \in DOMAIN jobs, newState \in {"paused", "cancelled"} :
      \E st \in { DMState } :
        StopsAsStated(st, j, newState, handleJobStateChange(st, j, newState))

\* Job j2 was stopped while the remote worker w1 held its chunk and c0 held
\* the chunk of j1: w1's entry is gone and the chunk is pending again, c0's
\* entry and chunk are as they were.
C20_Witness ==
    /\ jobs["j2"].current_state \in {"paused", "cancelled"}
    /\ \E e \in outstanding : e.node = "w1" /\ e.jobId = "j2"
    /\ "w1" \notin DOMAIN m_assignments
    /\ "j2" \in DOMAIN m_dispatchTables
    /\ m_dispatchTables["j2"][1].state = "pending"
    /\ m_dispatchTables["j2"][1].retry_count = 0
    /\ HoldsJob(DMState, Self, "j1")
    /\ ChunkGivenTo(DMState, "j1", 1, Self)

\* ------------------------------------------------------------------------
\* Properties of detectDeadWorkers for stopped peers (SpecStale)
\* ------------------------------------------------------------------------
\* The snapshot shows worker w alive and reclaim-eligible with node_state
\* stopped, as detectStaleness publishes a stopped peer whose seq advances.
StoppedAlive(nodes, w) ==
    /\ nodes[w].present
    /\ ~nodes[w].isDead
    /\ nodes[w].reclaimEligible
    /\ nodes[w].node_state = "stopped"

\* C28: a peer whose heartbeat shows node_state stopped while its seq keeps
\* advancing is reported alive with reclaim_eligible = true, and the dispatch
\* manager takes back an assignment held by such a peer in its dead-worker
\* detection step, without waiting for the stale-assignment timeout.
C28_StoppedPeerReclaimedAtOnce ==
    \A nodes \in NodeSnapshots, reports \in ReportBatches, local \in LocalBatches :
      \E s \in { BeforeDetect(nodes, reports, local) } :
        \A w \in Workers \cap DOMAIN s.assign :
          StoppedAlive(nodes, w) =>
            w \notin DOMAIN detectDeadWorkers(s, nodes).assign

\* ------------------------------------------------------------------------
\* Properties of the number of assigned chunks (Spec)
\* ------------------------------------------------------------------------
\* The nodes the snapshot shows alive with render_state idle.
AliveIdle(nodes) ==
    { n \in Nodes : nodes[n].present /\ ~nodes[n].isDead
                    /\ nodes[n].render_state = "idle" }

AssignedIn(chunks) ==
    { i \in 1..Len(chunks) : chunks[i].state = "assigned" }

\* The chunks that are assigned in r and were not assigned in s.
NewlyAssigned(s, r) ==
    { << j, i >> \in UNION { {j} \X AssignedIn(r.tables[j]) : j \in DOMAIN r.tables } :
        j \notin DOMAIN s.tables \/ i \notin AssignedIn(s.tables[j]) }

\* C29 as stated: at the end of each update() cycle, for every dispatch
\* table, the number of its chunks in state assigned is at most the number of
\* alive workers whose heartbeat shows render_state idle, plus one.
C29_AssignedAtMostIdlePlusOne ==
    \A nodes \in NodeSnapshots, reports \in ReportBatches, local \in LocalBatches :
      \E r \in { UpdateResult(nodes, reports, local) } :
        \A j \in DOMAIN r.tables :
          Cardinality(AssignedIn(r.tables[j])) <= Cardinality(AliveIdle(nodes)) + 1

\* C29 amended: in each update() cycle the chunks that assignWork moves to
\* assigned, over all dispatch tables, are at most as many as the nodes the
\* snapshot shows alive with render_state idle; chunks assigned in earlier
\* cycles stay assigned whatever the heartbeats show.
C29_NewlyAssignedAtMostIdle ==
    \A nodes \in NodeSnapshots, reports \in ReportBatches, local \in LocalBatches :
      \E s6 \in { checkJobCompletions(
                    detectDeadWorkers(BeforeDetect(nodes, reports, local), nodes)) } :
        \E r \in { IF m_nodeActive THEN assignWork(s6, nodes) ELSE s6 } :
          /\ Cardinality(NewlyAssigned(s6, r)) <= Cardinality(AliveIdle(nodes))
          /\ \A j \in DOMAIN s6.tables :
               AssignedIn(s6.tables[j]) \subseteq AssignedIn(r.tables[j])

\* A cycle has given chunks to both nodes of the farm.
C29_Witness ==
    \E j \in DOMAIN m_dispatchTables :
        /\ Cardinality(AssignedIn(m_dispatchTables[j])) = 2
        /\ DOMAIN m_assignments = Nodes

\* ------------------------------------------------------------------------
\* Properties of the order of delivery (SpecCmd)
\* ------------------------------------------------------------------------
\* C30: actions stemming from commands sent by the same sender to the same
\* target are delivered by popActions in the order in which they were sent,
\* whether they are picked up by one poll or by several polls: in the queue
\* popActions drains, no action of a sender stands behind an action of a
\* later send of that sender.
C30_SameSenderInSendOrder ==
    \A n \in Nodes :
      \A p, q \in 1..Len(m_actionQueue[n]) :
        (/\ p < q
         /\ m_actionQueue[n][p].fromNodeId = m_actionQueue[n][q].fromNodeId)
        => m_actionQueue[n][p].msgId[1] <= m_actionQueue[n][q].msgId[1]

\* ------------------------------------------------------------------------
\* SpecSubmit: submitJob called from the main thread and from the
\* submission manager's thread
\* ------------------------------------------------------------------------
\* The GUI submit path and requeueJob run on the main thread; the submission
\* manager calls submitJob from its own thread (SubmissionManager::threadFunc).
Callers == {"main", "submission"}

JobNames == {"shot"}

SubmitFrames == {1, 2}

NoSlug == << >>

\* The slug and its deduplicated candidates slug-2, slug-3, ...
Slug(name, i) == << name, i >>

\* TemplateManager::generateSlug: the first candidate with no directory.
generateSlug(name) ==
    LET free == { i \in 1..SlugTries : Slug(name, i) \notin jobDirs }
    IN IF free = {} THEN NoSlug ELSE Slug(name, SetMin(free))

SubmitUnchanged ==
    UNCHANGED << dvars, cvars, fvars, scanTs, rvars, ivars, tvars, avars >>

Returned(t, ok) ==
    /\ submitted' = Append(submitted, [by |-> t, job_id |-> submitCall[t].job_id,
                                       ok |-> ok])
    /\ submitCall' = [submitCall EXCEPT ![t] = [pc |-> "idle"]]

\* The caller bakes a manifest under a fresh slug and enters submitJob.
SubmitBegin(t) ==
    /\ submitCall[t].pc = "idle"
    /\ Len(submitted) + Cardinality({ u \in Callers : submitCall[u].pc # "idle" })
         < MaxSubmits
    /\ \E name \in JobNames, fe \in SubmitFrames :
         \E slug \in { generateSlug(name) } :
           /\ slug # NoSlug
           /\ submitCall' = [submitCall EXCEPT ![t] =
                 [pc |-> "dirs", job_id |-> slug,
                  content |-> [job_id |-> slug, frame_end |-> fe, submitted_by |-> Self]]]
    /\ UNCHANGED << jobDirs, manifestJson, manifestTmp, submitted, stateDir >>
    /\ SubmitUnchanged

\* fs::create_directories(jobDir / "state") and its siblings.
SubmitCreateDirs(t) ==
    /\ submitCall[t].pc = "dirs"
    /\ jobDirs' = jobDirs \cup { submitCall[t].job_id }
    /\ submitCall' = [submitCall EXCEPT ![t].pc = "exists"]
    /\ UNCHANGED << manifestJson, manifestTmp, submitted, stateDir >>
    /\ SubmitUnchanged

\* if (fs::exists(manifestPath)) return {};
SubmitCheckExists(t) ==
    /\ submitCall[t].pc = "exists"
    /\ IF submitCall[t].job_id \in DOMAIN manifestJson
       THEN Returned(t, FALSE)
       ELSE /\ submitCall' = [submitCall EXCEPT ![t].pc = "tmp"]
            /\ UNCHANGED submitted
    /\ UNCHANGED << jobDirs, manifestJson, manifestTmp, stateDir >>
    /\ SubmitUnchanged

\* AtomicFileIO::writeText: the content goes to manifest.json.tmp.
SubmitWriteTmp(t) ==
    /\ submitCall[t].pc = "tmp"
    /\ manifestTmp' = MapPut(manifestTmp, submitCall[t].job_id, submitCall[t].content)
    /\ submitCall' = [submitCall EXCEPT ![t].pc = "rename"]
    /\ UNCHANGED << jobDirs, manifestJson, submitted, stateDir >>
    /\ SubmitUnchanged

\* AtomicFileIO::writeText: rename(tmp, path) replaces the file of that name;
\* with no tmp file left it throws, writeText returns false and submitJob {}.
SubmitRename(t) ==
    /\ submitCall[t].pc = "rename"
    /\ IF submitCall[t].job_id \in DOMAIN manifestTmp
       THEN /\ manifestJson' = MapPut(manifestJson, submitCall[t].job_id,
                                      manifestTmp[submitCall[t].job_id])
            /\ manifestTmp' = MapErase(manifestTmp, submitCall[t].job_id)
            /\ submitCall' = [submitCall EXCEPT ![t].pc = "state"]
            /\ UNCHANGED submitted
       ELSE /\ Returned(t, FALSE)
            /\ UNCHANGED << manifestJson, manifestTmp >>
    /\ UNCHANGED << jobDirs, stateDir >>
    /\ SubmitUnchanged

\* The initial state entry; submitJob returns the job id.
SubmitWriteState(t) ==
    /\ submitCall[t].pc = "state"
    /\ \E dir \in { IF submitCall[t].job_id \in DOMAIN stateDir
                    THEN stateDir[submitCall[t].job_id] ELSE EmptyMap } :
         stateDir' = MapPut(stateDir, submitCall[t].job_id,
                            MapPut(dir, StateFileName(ClockMs, Self),
                                   JobStateEntry("active", 50, Self, ClockMs)))
    /\ Returned(t, TRUE)
    /\ UNCHANGED << jobDirs, manifestJson, manifestTmp >>
    /\ SubmitUnchanged

NextSubmit ==
    \/ \E t \in Callers : SubmitBegin(t)
    \/ \E t \in Callers : SubmitCreateDirs(t)
    \/ \E t \in Callers : SubmitCheckExists(t)
    \/ \E t \in Callers : SubmitWriteTmp(t)
    \/ \E t \in Callers : SubmitRename(t)
    \/ \E t \in Callers : SubmitWriteState(t)
    \/ ClockTick

InitSubmit == DispatchInit(JobsFarms) /\ CommandInit /\ OthersIdle
        /\ NoStateDir /\ HeartbeatInit

SpecSubmit == InitSubmit /\ [][NextSubmit]_vars

\* ------------------------------------------------------------------------
\* Properties of submitJob (SpecSubmit)
\* ------------------------------------------------------------------------
\* C25: the manifest of a job is written at most once: for any interleaving
\* of submitJob calls with the same job_id, at most one call succeeds, and
\* the content of manifest.json never changes after the file first exists.
C25_ManifestWrittenOnce ==
    [][/\ \A a, b \in 1..Len(submitted') :
            (/\ submitted'[a].ok
             /\ submitted'[b].ok
             /\ submitted'[a].job_id = submitted'[b].job_id) => a = b
       /\ \A slug \in DOMAIN manifestJson :
            /\ slug \in DOMAIN manifestJson'
            /\ manifestJson'[slug] = manifestJson[slug]]_vars

\* ------------------------------------------------------------------------
\* RenderCoordinator
\* ------------------------------------------------------------------------
\* The RenderCoordinator of node n as one record; `calls` collects the calls
\* of m_completionFn that an operation makes.
RenderState(n) ==
    [queue |-> m_dispatchQueue[n], active |-> m_activeRender[n],
     stopped |-> m_stopped[n], seq |-> m_eventSeq[n],
     loaded |-> m_eventSeqLoaded[n], events |-> emitted[n], calls |-> << >>]

ChunkRef(jobId, fs, fe) == [jobId |-> jobId, frame_start |-> fs, frame_end |-> fe]

Completion(chunk, state) ==
    [jobId |-> chunk.jobId, frame_start |-> chunk.frame_start,
     frame_end |-> chunk.frame_end, state |-> state]

RECURSIVE MaxSeqOf(_, _)
MaxSeqOf(events, k) ==
    IF k > Len(events) THEN 0 ELSE Max(events[k], MaxSeqOf(events, k + 1))

\* nextEventSeq: on its first call after init with a render active, the
\* counter is raised to the highest seq in the active job's directory.
nextEventSeq(rc) ==
    LET load == ~rc.loaded /\ rc.active # NoRender
        base == IF load THEN Max(rc.seq, MaxSeqOf(rc.events[rc.active.jobId], 1))
                ELSE rc.seq
    IN [rc EXCEPT !.seq = base + 1, !.loaded = rc.loaded \/ load]

emitEvent(rc, type) ==
    IF rc.active = NoRender THEN rc
    ELSE LET r == nextEventSeq(rc)
         IN [r EXCEPT !.events[rc.active.jobId] =
                          Append(@, r.seq)]

\* A failChunk that clears the render and makes no callback.
failChunk_NoCallback(rc) ==
    IF rc.active = NoRender THEN rc ELSE [rc EXCEPT !.active = NoRender]

failChunk(rc) ==
    IF rc.active = NoRender THEN rc
    ELSE [rc EXCEPT !.active = NoRender,
                    !.calls = Append(@, Completion(rc.active, "failed"))]

onChunkCompleted(rc) ==
    IF rc.active = NoRender THEN rc
    ELSE [emitEvent(rc, "chunk_finished") EXCEPT
             !.active = NoRender,
             !.calls = Append(@, Completion(rc.active, "completed"))]

onChunkFailed(rc) ==
    IF rc.active = NoRender THEN rc ELSE failChunk(emitEvent(rc, "chunk_failed"))

abortCurrentRender(rc) ==
    IF rc.active = NoRender THEN rc ELSE failChunk(emitEvent(rc, "chunk_failed"))

queueDispatch(rc, chunk) == [rc EXCEPT !.queue = Append(@, chunk)]

AgentMessages == {"ack", "frame_completed", "completed", "failed"}

handleAgentMessage(rc, type) ==
    IF rc.active = NoRender THEN rc
    ELSE CASE type = "ack" -> emitEvent(rc, "chunk_started")
           [] type = "frame_completed" -> emitEvent(rc, "frame_finished")
           [] type = "completed" -> onChunkCompleted(rc)
           [] type = "failed" -> onChunkFailed(rc)
           [] OTHER -> rc

\* RenderCoordinator::update without its tests of isAgentConnected().
RenderUpdate_StartsUnconnected(rc, connected) ==
    LET hasPending == rc.active = NoRender /\ rc.queue # << >>
        popped == IF hasPending THEN [rc EXCEPT !.queue = Tail(@)] ELSE rc
        pending == Head(rc.queue)
    IN CASE ~hasPending -> popped
         [] rc.stopped ->
              [popped EXCEPT !.calls = Append(@, Completion(pending, "abandoned"))]
         [] OTHER -> [popped EXCEPT !.active = pending]

\* RenderCoordinator::update while the supervisor reports the agent
\* connected or not.
RenderUpdate(rc, connected) ==
    LET hasPending == rc.active = NoRender /\ rc.queue # << >>
        popped == IF hasPending THEN [rc EXCEPT !.queue = Tail(@)] ELSE rc
        pending == Head(rc.queue)
        started ==
            CASE ~hasPending -> popped
              [] rc.stopped ->
                   [popped EXCEPT !.calls = Append(@, Completion(pending, "abandoned"))]
              [] ~connected -> [popped EXCEPT !.queue = Append(@, pending)]
              [] OTHER -> [popped EXCEPT !.active = pending]
    IN IF started.active # NoRender /\ ~connected
       THEN failChunk(emitEvent(started, "chunk_failed"))
       ELSE started

\* RenderCoordinator::init in startFarm: in a new process (fresh) the queue is
\* empty too, in the running one it keeps its entries.
RenderReinit(rc, fresh) ==
    [rc EXCEPT !.seq = 0, !.loaded = FALSE, !.active = NoRender,
               !.stopped = FALSE, !.queue = IF fresh THEN << >> ELSE @]

\* The RenderCoordinator of node n becomes r; its callbacks are recorded.
RenderBecomes(n, r) ==
    /\ m_dispatchQueue' = [m_dispatchQueue EXCEPT ![n] = r.queue]
    /\ m_activeRender' = [m_activeRender EXCEPT ![n] = r.active]
    /\ m_stopped' = [m_stopped EXCEPT ![n] = r.stopped]
    /\ m_eventSeq' = [m_eventSeq EXCEPT ![n] = r.seq]
    /\ m_eventSeqLoaded' = [m_eventSeqLoaded EXCEPT ![n] = r.loaded]
    /\ emitted' = [emitted EXCEPT ![n] = r.events]
    /\ completionCalls' = [completionCalls EXCEPT ![n] = r.calls]

\* ------------------------------------------------------------------------
\* SpecRender: the RenderCoordinator of a worker under its callers
\* ------------------------------------------------------------------------
RenderChunks == { ChunkRef(j, 1, 1) : j \in Jobs }

RenderUnchanged ==
    UNCHANGED << m_dispatchTables, m_assignments, m_completionWritten,
                 m_dirtyTables, m_recovered, m_lastWrite, m_nodeActive,
                 dispatchJson, stateLog, jobs, manifest, now, outstanding,
                 controls, nFail, cvars, fvars, jvars, svars, tvars, avars,
                 m_pendingCompletions, m_localCompletionQueue,
                 pausedChunks, reassigned, flushedCalls >>

\* handleAssignChunk or the local dispatch callback queues an assignment.
QueueDispatch(n) ==
    \E chunk \in RenderChunks :
      /\ dispatched < MaxDispatches
      /\ dispatched' = dispatched + 1
      /\ RenderBecomes(n, queueDispatch(RenderState(n), chunk))
      /\ UNCHANGED restarts
      /\ RenderUnchanged

RenderCapOK(r) == r.seq <= MaxEventSeq

RenderCoordinatorUpdate(n) ==
    \E connected \in BOOLEAN :
      \E r \in { RenderUpdate(RenderState(n), connected) } :
        /\ RenderCapOK(r)
        /\ RenderBecomes(n, r)
        /\ UNCHANGED << dispatched, restarts >>
        /\ RenderUnchanged

AgentMessage(n) ==
    \E type \in AgentMessages :
      \E r \in { handleAgentMessage(RenderState(n), type) } :
        /\ m_activeRender[n] # NoRender
        /\ RenderCapOK(r)
        /\ RenderBecomes(n, r)
        /\ UNCHANGED << dispatched, restarts >>
        /\ RenderUnchanged

AbortRender(n) ==
    \E r \in { abortCurrentRender(RenderState(n)) } :
      /\ m_activeRender[n] # NoRender
      /\ RenderCapOK(r)
      /\ RenderBecomes(n, r)
      /\ UNCHANGED << dispatched, restarts >>
      /\ RenderUnchanged

SetStopped(n) ==
    \E stopped \in BOOLEAN :
      /\ stopped # m_stopped[n]
      /\ RenderBecomes(n, [RenderState(n) EXCEPT !.stopped = stopped])
      /\ UNCHANGED << dispatched, restarts >>
      /\ RenderUnchanged

RenderRestart(n) ==
    \E fresh \in BOOLEAN :
      /\ restarts < MaxRestarts
      /\ restarts' = restarts + 1
      /\ RenderBecomes(n, RenderReinit(RenderState(n), fresh))
      /\ UNCHANGED dispatched
      /\ RenderUnchanged

NextRender ==
    \/ \E n \in Workers : QueueDispatch(n)
    \/ \E n \in Workers : RenderCoordinatorUpdate(n)
    \/ \E n \in Workers : AgentMessage(n)
    \/ \E n \in Workers : AbortRender(n)
    \/ \E n \in Workers : SetStopped(n)
    \/ \E n \in Workers : RenderRestart(n)

InitRender == DispatchInit(JobsFarms) /\ CommandInit /\ OthersIdle
        /\ NoStateDir /\ HeartbeatInit

SpecRender == InitRender /\ [][NextRender]_vars

\* ------------------------------------------------------------------------
\* Properties of the event files (SpecRender)
\* ------------------------------------------------------------------------
\* C27: for each (node, job), the seq numbers of the event files the node
\* writes under the job's events/{node}/ directory are strictly increasing in
\* emission order and never reuse a seq already present in that directory,
\* including after a restart of the node and when the node alternates
\* between several jobs.
C27_EventSeqStrictlyIncreasing ==
    \A n \in Nodes, j \in Jobs :
      \A a, b \in 1..Len(emitted[n][j]) :
        a < b => emitted[n][j][a] < emitted[n][j][b]

\* ------------------------------------------------------------------------
\* Properties of RenderCoordinator::update (SpecRender)
\* ------------------------------------------------------------------------
\* What update() may do to RenderCoordinator rc, the agent connected or not,
\* with result r; on a stopped node only if `alsoStopped`.
OneRenderAtATime(rc, connected, r, alsoStopped) ==
    /\ (r.active # NoRender /\ r.active # rc.active)
         => /\ rc.active = NoRender
            /\ ~rc.stopped
            /\ connected
            /\ rc.queue # << >>
            /\ r.active = Head(rc.queue)
            /\ r.queue = Tail(rc.queue)
    /\ (/\ ~connected
        /\ rc.active = NoRender
        /\ rc.queue # << >>
        /\ alsoStopped \/ ~rc.stopped)
         => /\ r.active = NoRender
            /\ r.calls = << >>
            /\ r.queue = Append(Tail(rc.queue), Head(rc.queue))
    /\ (rc.active # NoRender /\ connected)
         => r.queue = rc.queue /\ r.active = rc.active /\ r.calls = << >>

\* No step of any operation replaces an active render by another one.
RenderEndsBeforeNext ==
    \A n \in Nodes :
       m_activeRender'[n] # m_activeRender[n]
         => m_activeRender[n] = NoRender \/ m_activeRender'[n] = NoRender

\* C26 as stated: a node renders at most one chunk at a time: a queued
\* assignment is popped and started only when no render is active, the node
\* is not stopped and the agent is connected; when the agent is not connected
\* the assignment stays queued and no completion callback is made, and
\* assignments queued while a render is active are started only after that
\* render has ended.
C26_OneRenderAtATime ==
    [][/\ RenderEndsBeforeNext
       /\ \A n \in Workers, connected \in BOOLEAN :
            OneRenderAtATime(RenderState(n), connected,
                             RenderUpdate(RenderState(n), connected), TRUE)]_vars

\* C26 amended: as stated, but the assignment stays queued without a
\* completion callback when the agent is not connected and the node is not
\* stopped; on a stopped node update() pops it and reports it abandoned
\* whether the agent is connected or not.
C26_OneRenderAtATimeUnlessStopped ==
    [][/\ RenderEndsBeforeNext
       /\ \A n \in Workers, connected \in BOOLEAN :
            LET rc == RenderState(n)
                r == RenderUpdate(rc, connected)
            IN /\ OneRenderAtATime(rc, connected, r, FALSE)
               /\ (rc.active = NoRender /\ rc.queue # << >> /\ rc.stopped)
                    => /\ r.active = NoRender
                       /\ r.queue = Tail(rc.queue)
                       /\ r.calls = << Completion(Head(rc.queue), "abandoned") >>]_vars

\* A render is active on a worker while another assignment is queued.
C26_Witness ==
    \E n \in Workers : m_activeRender[n] # NoRender /\ m_dispatchQueue[n] # << >>

\* ------------------------------------------------------------------------
\* SpecNode: the coordinator and a worker, each with its RenderCoordinator,
\* joined by the command inboxes
\* ------------------------------------------------------------------------
\* What one handler works on: every node's RenderCoordinator, the buffered
\* and the local completions, the reports handed to processAction, the
\* inboxes and the clock.
World ==
    [rc |-> [n \in Nodes |-> RenderState(n)],
     pend |-> m_pendingCompletions,
     local |-> m_localCompletionQueue,
     reports |-> << >>,
     inbox |-> inbox, sentIds |-> sentIds, enqueued |-> enqueued,
     clock |-> sysClock, flushed |-> flushedCalls]

\* CommandManager::sendCommand; the next call of the handler comes `gap`
\* milliseconds later.
sendCommand(w, from, target, type, jobId, reason, fs, fe, gap) ==
    LET msgId == MsgId(w.clock, from)
        call == Len(w.sentIds) + 1
        file == [kind |-> "command", type |-> type, from |-> from,
                 msg_id |-> msgId, call |-> call, job_id |-> jobId,
                 reason |-> reason, frame_start |-> fs, frame_end |-> fe]
    IN [w EXCEPT !.inbox[target] = MapPut(@, msgId, file),
                 !.sentIds = Append(@, msgId),
                 !.enqueued = Append(@, 0),
                 !.clock = @ + gap]

\* The completion callbacks startFarm installs: the coordinator's goes to
\* queueLocalCompletion; a worker's sends chunk_completed for "completed" and
\* chunk_failed for every other state, or buffers the completion when
\* findCoordinatorNodeId finds no live coordinator.
CompletionCommand(state) ==
    IF state = "completed" THEN "chunk_completed" ELSE "chunk_failed"

m_completionFn(w, n, c, coordKnown, gap) ==
    IF n = Self THEN [w EXCEPT !.local = Append(@, c)]
    ELSE IF ~coordKnown THEN [w EXCEPT !.pend[n] = Append(@, c)]
    ELSE sendCommand(w, n, Self, CompletionCommand(c.state), c.jobId, c.state,
                     c.frame_start, c.frame_end, gap)

RECURSIVE RouteCalls(_, _, _, _, _)
RouteCalls(w, n, calls, coordKnown, gap) ==
    IF calls = << >> THEN w
    ELSE RouteCalls(m_completionFn(w, n, Head(calls), coordKnown, gap),
                    n, Tail(calls), coordKnown, gap)

\* An operation left node n's RenderCoordinator as rc2: the callbacks it
\* made run.
Rendered(w, n, rc2, coordKnown, gap) ==
    RouteCalls([w EXCEPT !.rc[n] = rc2], n,
               SubSeq(rc2.calls, Len(w.rc[n].calls) + 1, Len(rc2.calls)),
               coordKnown, gap)

\* MonitorApp::handleAssignChunk with a readable manifest.
handleAssignChunk(w, n, action, coordKnown, gap) ==
    IF w.rc[n].active # NoRender
    THEN IF coordKnown
         THEN sendCommand(w, n, Self, "chunk_failed", action.jobId, "worker_busy",
                          action.frameStart, action.frameEnd, gap)
         ELSE w
    ELSE [w EXCEPT !.rc[n] = queueDispatch(@, ChunkRef(action.jobId,
                                               action.frameStart, action.frameEnd))]

\* The body of MonitorApp::update's loop over the popped actions.
HandleAction(w, n, action, coordKnown, gap) ==
    CASE action.type = "assign_chunk" ->
           handleAssignChunk(w, n, action, coordKnown, gap)
      [] action.type \in {"abort_chunk", "stop_job"} ->
           IF w.rc[n].active # NoRender /\ w.rc[n].active.jobId = action.jobId
           THEN Rendered(w, n, abortCurrentRender(w.rc[n]), coordKnown, gap)
           ELSE w
      [] action.type \in {"chunk_completed", "chunk_failed"} ->
           IF n = Self THEN [w EXCEPT !.reports = Append(@, action)] ELSE w
      [] OTHER -> w

RECURSIVE HandleActions(_, _, _, _, _)
HandleActions(w, n, actions, coordKnown, gap) ==
    IF actions = << >> THEN w
    ELSE HandleActions(HandleAction(w, n, Head(actions), coordKnown, gap),
                       n, Tail(actions), coordKnown, gap)

\* MonitorApp::flushPendingCompletions: every send of the loop is a call of
\* sendCommand; the buffer is cleared afterwards.
RECURSIVE FlushFrom(_, _, _, _)
FlushFrom(w, n, pending, gap) ==
    IF pending = << >> THEN [w EXCEPT !.pend[n] = << >>]
    ELSE LET c == Head(pending)
             s == sendCommand(w, n, Self, CompletionCommand(c.state), c.jobId,
                              c.state, c.frame_start, c.frame_end, gap)
         IN FlushFrom([s EXCEPT !.flushed = @ \cup { Len(s.sentIds) }],
                      n, Tail(pending), gap)

flushPendingCompletions(w, n, coordKnown, gap) ==
    IF ~coordKnown THEN w ELSE FlushFrom(w, n, w.pend[n], gap)

\* The heartbeats as fresh as they can be: every node alive, a stopped node
\* reclaim-eligible, the render state as the node synced it last.
NodeSnapshotNow ==
    [n \in Nodes |->
        NodeView(FALSE, m_stopped[n] /\ n # Self,
                 IF m_stopped[n] THEN "stopped" ELSE "active",
                 IF m_activeRender[n] # NoRender THEN "rendering" ELSE "idle",
                 IF m_activeRender[n] # NoRender THEN m_activeRender[n].jobId ELSE "")]

\* assignWork's hand-over of the cycle's assignments `out`: the local
\* dispatch callback for the coordinator, assign_chunk for a worker.
RECURSIVE Dispatch(_, _, _, _)
Dispatch(w, out, k, gap) ==
    IF k > Len(NodeOrder) THEN w
    ELSE LET n == NodeOrder[k]
             D == { d \in out : d.node = n }
             d == CHOOSE x \in D : TRUE
         IN IF D = {} THEN Dispatch(w, out, k + 1, gap)
            ELSE IF n = Self
            THEN Dispatch([w EXCEPT !.rc[n] =
                              queueDispatch(@, ChunkRef(d.jobId, d.frame_start,
                                                        d.frame_end))],
                          out, k + 1, gap)
            ELSE Dispatch(sendCommand(w, Self, n, "assign_chunk", d.jobId,
                                      "coordinator_dispatch", d.frame_start,
                                      d.frame_end, gap),
                          out, k + 1, gap)

\* The handler leaves the world as w.
WorldBecomes(w) ==
    /\ m_dispatchQueue' = [n \in Nodes |-> w.rc[n].queue]
    /\ m_activeRender' = [n \in Nodes |-> w.rc[n].active]
    /\ m_stopped' = [n \in Nodes |-> w.rc[n].stopped]
    /\ m_eventSeq' = [n \in Nodes |-> w.rc[n].seq]
    /\ m_eventSeqLoaded' = [n \in Nodes |-> w.rc[n].loaded]
    /\ emitted' = [n \in Nodes |-> w.rc[n].events]
    /\ completionCalls' = [n \in Nodes |-> w.rc[n].calls]
    /\ m_pendingCompletions' = w.pend
    /\ m_localCompletionQueue' = w.local
    /\ flushedCalls' = w.flushed
    /\ inbox' = w.inbox
    /\ sentIds' = w.sentIds
    /\ enqueued' = w.enqueued
    /\ Len(w.sentIds) <= MaxCommands
    /\ sysClock' = IF w.sentIds = sentIds THEN sysClock
                   ELSE Max(w.clock, sysClock + 1)

NodeUnchanged ==
    UNCHANGED << manifest, now, restarts, nFail, polls, fvars, jvars, svars, tvars, avars >>

\* The renderer's message that processMessages finds, if any; the renders of
\* this specification do not fail on their own and the agent stays connected.
NodeAgentMessages == {"none", "completed"}

AfterAgentMessage(w, n, msg, coordKnown, gap) ==
    IF msg = "none" THEN w
    ELSE Rendered(w, n, handleAgentMessage(w.rc[n], msg), coordKnown, gap)

\* One iteration of MonitorApp::update on worker n.
WorkerUpdate(n) ==
    \E msg \in NodeAgentMessages, coordKnown \in BOOLEAN, gap \in {0, 1} :
      \E w1 \in { HandleActions(AfterAgentMessage(World, n, msg, coordKnown, gap),
                                n, m_actionQueue[n], coordKnown, gap) } :
        \E w2 \in { Rendered(w1, n, RenderUpdate(w1.rc[n], TRUE), coordKnown, gap) } :
          \E w3 \in { flushPendingCompletions(w2, n, coordKnown, gap) } :
            /\ msg # "none" => m_activeRender[n] # NoRender
            /\ gap = 1 => Len(w3.sentIds) > Len(sentIds) + 1
            /\ WorldBecomes(w3)
            /\ m_actionQueue' = [m_actionQueue EXCEPT ![n] = << >>]
            /\ UNCHANGED << m_dispatchTables, m_assignments, m_completionWritten,
                            m_dirtyTables, m_recovered, m_lastWrite, m_nodeActive,
                            dispatchJson, stateLog, jobs, outstanding, dispatched,
                            controls, processed, pausedChunks,
                            reassigned >>
            /\ NodeUnchanged

\* One iteration of MonitorApp::update on the coordinator.
CoordinatorUpdate ==
    \E msg \in NodeAgentMessages, gap \in {0, 1} :
      \E w1 \in { HandleActions(AfterAgentMessage(World, Self, msg, TRUE, gap),
                                Self, m_actionQueue[Self], TRUE, gap) } :
        \E r \in { UpdateResult(NodeSnapshotNow, w1.reports, w1.local) } :
          \E w2 \in { Dispatch([w1 EXCEPT !.local = << >>], r.out, 1, gap) } :
            \E w3 \in { Rendered(w2, Self, RenderUpdate(w2.rc[Self], TRUE), TRUE, gap) } :
              /\ msg # "none" => m_activeRender[Self] # NoRender
              /\ gap = 1 => Len(w3.sentIds) > Len(sentIds) + 1
              /\ UpdateDM(r, w1.reports, w1.local)
              /\ WorldBecomes(w3)
              /\ m_actionQueue' = [m_actionQueue EXCEPT ![Self] = << >>]
              /\ UNCHANGED << m_nodeActive, jobs, controls, processed, pausedChunks,
                            reassigned >>
              /\ NodeUnchanged

\* The command thread of node n: pollInbox with every file moved.
NodePollInbox(n) ==
    /\ inbox[n] # EmptyMap
    /\ \E r \in { pollInbox(n, [name \in DOMAIN inbox[n] |-> "moved"]) } :
         /\ inbox' = [inbox EXCEPT ![n] = r.inbox]
         /\ processed' = [processed EXCEPT ![n] = r.processed]
         /\ m_actionQueue' = [m_actionQueue EXCEPT ![n] = r.queue]
         /\ enqueued' = r.enq
    /\ UNCHANGED << sysClock, sentIds, polls, dvars, fvars, jvars, ovars >>

\* The chunks of job j that are assigned in the coordinator's table.
AssignedChunks(j) ==
    IF j \notin DOMAIN m_dispatchTables THEN {}
    ELSE { ChunkRef(j, m_dispatchTables[j][i].frame_start,
                    m_dispatchTables[j][i].frame_end) :
             i \in { k \in 1..Len(m_dispatchTables[j]) :
                       m_dispatchTables[j][k].state = "assigned" } }

RECURSIVE SendAll(_, _, _, _)
SendAll(w, from, cmds, gap) ==
    IF cmds = << >> THEN w
    ELSE LET c == Head(cmds)
         IN SendAll(sendCommand(w, from, c.target, c.type, c.jobId, c.reason,
                                c.frame_start, c.frame_end, gap),
                    from, Tail(cmds), gap)

\* MonitorApp::pauseJob on the coordinator: the state entry, the abort of its
\* own render of the job, handleJobStateChange with its abort_chunk commands,
\* then stop_job to every peer that is alive.
PauseJob(j) ==
    \E gap \in {0, 1} :
      \E w1 \in { IF m_activeRender[Self] # NoRender /\ m_activeRender[Self].jobId = j
                  THEN Rendered(World, Self, abortCurrentRender(World.rc[Self]),
                                TRUE, gap)
                  ELSE World } :
        \E h \in { handleJobStateChange(DMState, j, "paused") } :
          \E w2 \in { SendAll(w1, Self,
                              h.sent \o [k \in 1..Len(SelectSeq(NodeOrder,
                                                       LAMBDA n : n # Self)) |->
                                  [target |-> SelectSeq(NodeOrder,
                                                        LAMBDA n : n # Self)[k],
                                   type |-> "stop_job", jobId |-> j,
                                   reason |-> "user_request",
                                   frame_start |-> 0, frame_end |-> 0]],
                              gap) } :
            /\ jobs[j].current_state = "active"
            /\ UseControl
            /\ stateLog' = [stateLog EXCEPT ![j] =
                              [state |-> "paused", priority |-> jobs[j].current_priority]]
            /\ jobs' = [jobs EXCEPT ![j].current_state = "paused"]
            /\ m_dispatchTables' = h.state.tables
            /\ m_assignments' = h.state.assign
            /\ m_dirtyTables' = h.state.dirty
            /\ pausedChunks' = pausedChunks \cup AssignedChunks(j)
            /\ UNCHANGED reassigned
            /\ WorldBecomes(w2)
            /\ UNCHANGED << m_completionWritten, m_recovered, m_lastWrite,
                            m_nodeActive, dispatchJson, outstanding, dispatched,
                            processed, m_actionQueue >>
            /\ NodeUnchanged

\* MonitorApp::resumeJob on the coordinator.
ResumePausedJob(j) ==
    \E h \in { handleJobStateChange(DMState, j, "active") } :
      /\ jobs[j].current_state = "paused"
      /\ UseControl
      /\ stateLog' = [stateLog EXCEPT ![j] =
                        [state |-> "active", priority |-> jobs[j].current_priority]]
      /\ jobs' = [jobs EXCEPT ![j].current_state = "active"]
      /\ m_dispatchTables' = h.state.tables
      /\ m_assignments' = h.state.assign
      /\ m_dirtyTables' = h.state.dirty
      /\ UNCHANGED << m_completionWritten, m_recovered, m_lastWrite, m_nodeActive,
                      dispatchJson, outstanding, dispatched, cvars, rvars >>
      /\ UNCHANGED << manifest, now, restarts, nFail, fvars, jvars, svars, tvars, avars >>

\* MonitorApp::setNodeState on node n, from its own window.
SetNodeStopped(n, stopped) ==
    \E coordKnown \in BOOLEAN :
      \E w1 \in { IF stopped
                  THEN Rendered(World, n, abortCurrentRender(World.rc[n]),
                                coordKnown \/ n = Self, 0)
                  ELSE World } :
        /\ m_stopped[n] # stopped
        /\ n = Self => coordKnown
        /\ (~stopped \/ m_activeRender[n] = NoRender) => coordKnown
        /\ UseControl
        /\ WorldBecomes([w1 EXCEPT !.rc[n].stopped = stopped])
        /\ m_nodeActive' = IF n = Self THEN ~stopped ELSE m_nodeActive
        /\ UNCHANGED << m_dispatchTables, m_assignments, m_completionWritten,
                        m_dirtyTables, m_recovered, m_lastWrite, dispatchJson,
                        stateLog, jobs, outstanding, dispatched, processed,
                        m_actionQueue, pausedChunks, reassigned >>
        /\ NodeUnchanged

\* The abort_chunk that reassignChunk hands to m_commandSenderFn: to the
\* holder of the chunk, which may be the coordinator's own inbox.
AbortOnReassign(st, jobId, frameStart, frameEnd) ==
    IF jobId \notin DOMAIN st.tables THEN << >>
    ELSE
      LET chunks == st.tables[jobId]
          S == { i \in 1..Len(chunks) :
                   /\ chunks[i].frame_start = frameStart
                   /\ chunks[i].frame_end = frameEnd
                   /\ chunks[i].state = "assigned" }
      IN IF S = {} \/ chunks[SetMin(S)].assigned_to = "" THEN << >>
         ELSE << [target |-> chunks[SetMin(S)].assigned_to, type |-> "abort_chunk",
                  jobId |-> jobId, reason |-> "coordinator_reassign",
                  frame_start |-> frameStart, frame_end |-> frameEnd] >>

\* MonitorApp::reassignChunk on the coordinator, from the chunk table of its
\* window.
NodeReassignChunk ==
    \E j \in DOMAIN jobs : \E c \in ShownChunks(j) :
      \E r \in { reassignChunk(DMState, j, c.frame_start, c.frame_end) } :
        \E w1 \in { SendAll(World, Self,
                            AbortOnReassign(DMState, j, c.frame_start, c.frame_end),
                            0) } :
          /\ c.state = "assigned"
          /\ UseControl
          /\ m_dispatchTables' = r.tables
          /\ m_assignments' = r.assign
          /\ m_dirtyTables' = r.dirty
          /\ reassigned' = reassigned \cup
                 { [chunk |-> ChunkRef(j, c.frame_start, c.frame_end),
                    retry_count |-> c.retry_count] }
          /\ WorldBecomes(w1)
          /\ UNCHANGED << m_completionWritten, m_recovered, m_lastWrite,
                          m_nodeActive, dispatchJson, stateLog, jobs, outstanding,
                          dispatched, processed, m_actionQueue, pausedChunks >>
          /\ NodeUnchanged

NextNode ==
    \/ CoordinatorUpdate
    \/ \E n \in Workers : WorkerUpdate(n)
    \/ \E n \in Nodes : NodePollInbox(n)
    \/ \E j \in DOMAIN jobs : PauseJob(j)
    \/ \E j \in DOMAIN jobs : ResumePausedJob(j)
    \/ \E n \in Nodes, stopped \in BOOLEAN : SetNodeStopped(n, stopped)
    \/ NodeReassignChunk

NodeFarms == { "j1" :> Manifest(1, 2, 1, mr) : mr \in {1, 2} }

InitNode == DispatchInit(NodeFarms) /\ CommandInit /\ OthersIdle
        /\ NoStateDir /\ HeartbeatInit

SpecNode == InitNode /\ [][NextNode]_vars

\* ------------------------------------------------------------------------
\* Properties of the assignments a worker accepts (SpecNode)
\* ------------------------------------------------------------------------
\* The assignments node n has accepted and not yet finished: the queued ones
\* and the active render.
Accepted(n) ==
    Len(m_dispatchQueue[n]) + (IF m_activeRender[n] # NoRender THEN 1 ELSE 0)

\* C23: a worker that has accepted an assignment accepts no second one, also
\* when both assign_chunk actions come in one batch of popped actions: it
\* never holds more than one accepted assignment.
C23_WorkerAcceptsOnlyTheFirst ==
    \A n \in Workers : Accepted(n) <= 1

\* ------------------------------------------------------------------------
\* Properties of abandoned assignments (SpecNode)
\* ------------------------------------------------------------------------
\* The step is an iteration of the coordinator's MonitorApp::update that
\* consumes queued actions or local completions.
CoordinatorPops ==
    \/ m_actionQueue[Self] # << >> /\ m_actionQueue'[Self] = << >>
    \/ /\ m_localCompletionQueue # << >>
       /\ \/ Len(m_localCompletionQueue') < Len(m_localCompletionQueue)
          \/ SubSeq(m_localCompletionQueue', 1, Len(m_localCompletionQueue))
               # m_localCompletionQueue

\* The worker reports and the local completions of the batch that name the
\* chunk fs-fe of job j, each with the state its render ended in.
ReportedStates(j, fs, fe) ==
    { m_actionQueue[Self][k].reason :
        k \in { x \in 1..Len(m_actionQueue[Self]) :
                  /\ m_actionQueue[Self][x].type \in {"chunk_completed", "chunk_failed"}
                  /\ m_actionQueue[Self][x].jobId = j
                  /\ m_actionQueue[Self][x].frameStart = fs
                  /\ m_actionQueue[Self][x].frameEnd = fe } }
    \cup
    { m_localCompletionQueue[k].state :
        k \in { x \in 1..Len(m_localCompletionQueue) :
                  /\ m_localCompletionQueue[x].jobId = j
                  /\ m_localCompletionQueue[x].frame_start = fs
                  /\ m_localCompletionQueue[x].frame_end = fe } }

\* C22: when the coordinator processes the report of an abandoned
\* assignment, from its own RenderCoordinator or from a worker's chunk_failed
\* command, the chunk is pending (or assigned anew by the same cycle) and its
\* retry_count is what it was.
C22_AbandonedKeepsRetryCount ==
    [][ CoordinatorPops =>
          \A j \in DOMAIN m_dispatchTables \cap DOMAIN m_dispatchTables' :
            \A i \in 1..Len(m_dispatchTables[j]) :
              ReportedStates(j, m_dispatchTables[j][i].frame_start,
                             m_dispatchTables[j][i].frame_end) = {"abandoned"}
              => /\ m_dispatchTables'[j][i].retry_count
                      = m_dispatchTables[j][i].retry_count
                 /\ m_dispatchTables'[j][i].state \in {"pending", "assigned"} ]_vars

\* ------------------------------------------------------------------------
\* Properties of pause and resume (SpecNode)
\* ------------------------------------------------------------------------
ChunkStateOf(c) ==
    IF c.jobId \notin DOMAIN m_dispatchTables THEN "none"
    ELSE LET i == IndexOfRange(m_dispatchTables[c.jobId], c.frame_start, c.frame_end)
         IN IF i = 0 THEN "none" ELSE m_dispatchTables[c.jobId][i].state

\* C21: a chunk that was assigned when its job was paused is never failed
\* afterwards, whatever the aborted node reports, as long as no node has
\* been stopped.
C21_PausedChunkNotFailed ==
    (\A n \in Nodes : ~m_stopped[n]) =>
        \A c \in pausedChunks : ChunkStateOf(c) # "failed"

\* ------------------------------------------------------------------------
\* Properties of the buffered completions (SpecNode)
\* ------------------------------------------------------------------------
\* The command written by call k of sendCommand lies in the coordinator's inbox.
InCoordinatorInbox(k) ==
    \E name \in DOMAIN inbox[Self] : inbox[Self][name].call = k

\* C24: every buffered completion that flushPendingCompletions has sent is
\* in the coordinator's inbox or has been enqueued from there, once.
C24_FlushedReportArrivesOnce ==
    \A k \in flushedCalls :
        \/ enqueued[k] = 0 /\ InCoordinatorInbox(k)
        \/ enqueued[k] = 1 /\ ~InCoordinatorInbox(k)

\* ------------------------------------------------------------------------
\* Properties of retryFailedChunk (Spec)
\* ------------------------------------------------------------------------
\* What retryFailedChunk makes of chunk i of job j in the present state.
RetryEffect(j, i) ==
    LET c == m_dispatchTables[j][i]
        r == retryFailedChunk(DMState, j, c.frame_start, c.frame_end)
        first == IndexOfRange(m_dispatchTables[j], c.frame_start, c.frame_end) = i
        mr == LookupMaxRetries(j)
    IN IF c.state = "failed" /\ first
       THEN /\ r.tables[j][i] = ChunkToPending(c)
            /\ r.tables[j][i].retry_count = c.retry_count
            /\ r.tables = [m_dispatchTables EXCEPT ![j][i] = r.tables[j][i]]
            /\ r.assign = m_assignments
            /\ r.dirty = m_dirtyTables \cup {j}
            /\ c.retry_count + 1 >= mr =>
                  /\ ReportFailed(r.tables[j][i], mr).state = "failed"
                  /\ LocalFailed(r.tables[j][i], mr).state = "failed"
       ELSE c.state # "failed" => r = DMState

\* C31: retryFailedChunk on a failed chunk makes it pending and keeps its
\* retry_count, so its next failure makes it failed again when the count
\* reaches max_retries; on a chunk that is not failed it changes nothing.
C31_RetryKeepsRetryCount ==
    \A j \in DOMAIN m_dispatchTables :
        \A i \in 1..Len(m_dispatchTables[j]) : RetryEffect(j, i)

\* A chunk that a manual retry made pending with its retries used up.
C31_Witness ==
    \E j \in DOMAIN m_dispatchTables \cap DOMAIN jobs :
        \E i \in 1..Len(m_dispatchTables[j]) :
            /\ m_dispatchTables[j][i].state = "pending"
            /\ m_dispatchTables[j][i].retry_count >= LookupMaxRetries(j)

\* ------------------------------------------------------------------------
\* Properties of reassignChunk (SpecNode)
\* ------------------------------------------------------------------------
RetryCountOf(c) ==
    IF c.jobId \notin DOMAIN m_dispatchTables THEN 0
    ELSE LET i == IndexOfRange(m_dispatchTables[c.jobId], c.frame_start, c.frame_end)
         IN IF i = 0 THEN 0 ELSE m_dispatchTables[c.jobId][i].retry_count

\* C32: a chunk that reassignChunk demoted keeps the retry_count it had,
\* also after the aborted holder has reported, as long as no job has been
\* paused and no node stopped.
C32_ReassignKeepsRetryCount ==
    (pausedChunks = {} /\ \A n \in Nodes : ~m_stopped[n]) =>
        \A e \in reassigned : RetryCountOf(e.chunk) = e.retry_count

\* reassignChunk on a chunk that is not assigned changes nothing and sends
\* nothing; on an assigned chunk it sends one abort_chunk to the holder,
\* erases the holder's assignment and makes the chunk pending.
ReassignFrameEffect ==
    \A j \in DOMAIN m_dispatchTables :
      \A i \in 1..Len(m_dispatchTables[j]) :
        LET c == m_dispatchTables[j][i]
            r == reassignChunk(DMState, j, c.frame_start, c.frame_end)
            sent == AbortOnReassign(DMState, j, c.frame_start, c.frame_end)
        IN IF c.state = "assigned"
           THEN /\ r.tables = [m_dispatchTables EXCEPT ![j][i] = ChunkToPending(c)]
                /\ c.assigned_to \notin DOMAIN r.assign
                /\ Len(sent) = 1 /\ sent[1].target = c.assigned_to
           ELSE r = DMState /\ sent = << >>

\* ------------------------------------------------------------------------
\* Properties of a lost agent connection (SpecRender)
\* ------------------------------------------------------------------------
\* update() of a RenderCoordinator rc that has a render active and finds the
\* agent disconnected, and the update() after it with either connection state.
DisconnectFailsOnce(rc) ==
    LET j == rc.active.jobId
        r == RenderUpdate(rc, FALSE)
    IN /\ Len(r.events[j]) = Len(rc.events[j]) + 1
       /\ \A k \in Jobs \ {j} : r.events[k] = rc.events[k]
       /\ r.active = NoRender
       /\ r.calls = << Completion(rc.active, "failed") >>
       /\ r.queue = rc.queue
       /\ \A connected \in BOOLEAN :
            LET r2 == RenderUpdate([r EXCEPT !.calls = << >>], connected)
            IN /\ \A k \in 1..Len(r2.calls) : r2.calls[k].state = "abandoned"
               /\ (r.queue = << >> \/ ~connected) => r2.events = r.events

\* C33: when update() finds the agent disconnected while a render is
\* active, it emits one event, clears the active render and calls the
\* completion callback once, with state failed for that chunk; the next
\* update() reports no failure again.
C33_DisconnectFailsOnce ==
    \A n \in Workers :
        m_activeRender[n] # NoRender => DisconnectFailsOnce(RenderState(n))

\* A render has just been failed on a worker that still has work queued.
C33_Witness ==
    \E n \in Workers :
        /\ m_activeRender[n] = NoRender
        /\ m_dispatchQueue[n] # << >>
        /\ Len(completionCalls[n]) = 1
        /\ completionCalls[n][1].state = "failed"

\* ------------------------------------------------------------------------
\* SpecInbox: the submission manager's thread over the submissions folder
\* ------------------------------------------------------------------------
MAX_READ_RETRIES == 6

SubmissionNames == <<"s1", "s2">>     \* in the order of std::sort

\* What safeReadJson and the look-up of the template make of a file: not
\* yet readable, readable without a usable template_id, or a full submission.
SubmissionKinds == {"unreadable", "no_template", "complete"}

\* How far bakeManifest and submitJob get: an exception or a refused
\* create_directories, a failed write of the manifest, or a job.
SubmitOutcomes == {"none", "dirs_only", "job"}

SubmissionState ==
    [inbox |-> submissions, processed |-> submissionsProcessed,
     counts |-> m_readFailCounts, dirs |-> jobDirs, manifests |-> manifestJson,
     made |-> jobsFromFile]

\* fs::rename(file, submissions/processed/<name>, ec), ec ignored.
MoveAside(st, name, io) ==
    IF io = "moved"
    THEN [st EXCEPT !.inbox = MapErase(@, name), !.processed = @ \cup {name}]
    ELSE st

\* SubmissionManager::processSubmission for the file `name`, whose rename
\* ends as `io` and whose submit ends as `outcome`.
processSubmission(st, name, io, outcome) ==
    LET count == Field(st.counts, name, 0) + 1
        read == [st EXCEPT !.counts = MapErase(@, name)]
        slug == LET free == { i \in 1..SlugTries : Slug("shot", i) \notin st.dirs }
                IN IF free = {} THEN NoSlug ELSE Slug("shot", SetMin(free))
        made == [read EXCEPT
                   !.dirs = IF outcome = "none" THEN @ ELSE @ \cup {slug},
                   !.manifests =
                       IF outcome = "job"
                       THEN MapPut(@, slug, [job_id |-> slug, frame_end |-> 1,
                                             submitted_by |-> Self])
                       ELSE @,
                   !.made = IF outcome = "job"
                            THEN MapPut(@, name, Field(@, name, {}) \cup {slug})
                            ELSE @]
    IN CASE st.inbox[name] = "unreadable" ->
              IF count >= MAX_READ_RETRIES
              THEN MoveAside(read, name, io)
              ELSE [st EXCEPT !.counts = MapPut(@, name, count)]
         [] st.inbox[name] = "no_template" -> MoveAside(read, name, io)
         [] slug = NoSlug -> MoveAside(read, name, io)
         [] OTHER -> MoveAside(made, name, io)

\* SubmissionManager::pollInbox: the files found at its start, in order.
RECURSIVE PollSubmissionsFrom(_, _, _, _, _)
PollSubmissionsFrom(st, found, io, outcome, k) ==
    IF k > Len(SubmissionNames) THEN st
    ELSE LET name == SubmissionNames[k]
         IN PollSubmissionsFrom(
              IF name \in found THEN processSubmission(st, name, io[name], outcome[name])
              ELSE st,
              found, io, outcome, k + 1)

InboxUnchanged ==
    UNCHANGED << dvars, cvars, fvars, jvars, rvars, tvars, avars, submitCall,
                 manifestTmp, submitted >>

\* The submission thread's poll.
PollSubmissions ==
    \E io \in [DOMAIN submissions -> {"moved", "stays"}],
       outcome \in [DOMAIN submissions -> SubmitOutcomes] :
      \E r \in { PollSubmissionsFrom(SubmissionState, DOMAIN submissions,
                                     io, outcome, 1) } :
        /\ subPolls < MaxSubPolls
        /\ submissions # EmptyMap
        /\ \A name \in DOMAIN submissions :
              submissions[name] # "complete" => outcome[name] = "none"
        /\ subPolls' = subPolls + 1
        /\ submissions' = r.inbox
        /\ submissionsProcessed' = r.processed
        /\ m_readFailCounts' = r.counts
        /\ jobDirs' = r.dirs
        /\ manifestJson' = r.manifests
        /\ jobsFromFile' = r.made
        /\ InboxUnchanged

\* A submitting tool writes a file into submissions/; the shared folder may
\* show it before its content has arrived.
DropSubmission(name, kind) ==
    /\ name \notin DOMAIN submissions
    /\ name \notin submissionsProcessed
    /\ submissions' = MapPut(submissions, name, kind)
    /\ UNCHANGED << submissionsProcessed, m_readFailCounts, jobsFromFile, subPolls,
                    jobDirs, manifestJson >>
    /\ InboxUnchanged

\* The content of a file arrives.
SubmissionArrives(name, kind) ==
    /\ name \in DOMAIN submissions
    /\ submissions[name] = "unreadable"
    /\ submissions' = [submissions EXCEPT ![name] = kind]
    /\ UNCHANGED << submissionsProcessed, m_readFailCounts, jobsFromFile, subPolls,
                    jobDirs, manifestJson >>
    /\ InboxUnchanged

NextInbox ==
    \/ PollSubmissions
    \/ \E k \in 1..Len(SubmissionNames), kind \in SubmissionKinds :
         DropSubmission(SubmissionNames[k], kind)
    \/ \E k \in 1..Len(SubmissionNames), kind \in SubmissionKinds \ {"unreadable"} :
         SubmissionArrives(SubmissionNames[k], kind)

InitInbox == DispatchInit(JobsFarms) /\ CommandInit /\ OthersIdle
        /\ NoStateDir /\ HeartbeatInit

SpecInbox == InitInbox /\ [][NextInbox]_vars

\* ------------------------------------------------------------------------
\* Properties of the submission inbox (SpecInbox)
\* ------------------------------------------------------------------------
\* C34: each submission file makes at most one job.
C34_AtMostOneJobPerFile ==
    \A name \in DOMAIN jobsFromFile : Cardinality(jobsFromFile[name]) <= 1

\* An unreadable file is moved aside only after MAX_READ_RETRIES failed
\* reads in a row, and makes no job while it is unreadable; a file in
\* processed/ is no longer in the inbox.
UnreadableRetried ==
    /\ \A name \in DOMAIN m_readFailCounts :
          m_readFailCounts[name] < MAX_READ_RETRIES
    /\ \A name \in submissionsProcessed : name \notin DOMAIN submissions

\* ------------------------------------------------------------------------
\* Properties of the writes of dispatch.json (SpecRecover)
\* ------------------------------------------------------------------------
\* The dispatch.json files as DispatchManager::stop would leave them now.
AfterStop == WriteTables(dispatchJson, m_dispatchTables, m_dirtyTables)

StopFlushesEveryTable ==
    \A j \in DOMAIN m_dispatchTables :
        j \in DOMAIN AfterStop /\ AfterStop[j] = m_dispatchTables[j]

\* update() wrote dispatch.json files in this step.
CycleWrites ==
    /\ dispatchJson' # dispatchJson
    /\ restarts' = restarts

Threads == {"heartbeat", "main"}

\* The functions of the HeartbeatManager that read or write m_nodes.
PeerMapFunctions ==
    {"writeHeartbeat", "scanPeers", "detectStaleness", "detectClockSkew",
     "getNodeSnapshot"}

\* The functions that open with std::lock_guard on m_mutex.
LockingFunctions == {"writeHeartbeat", "scanPeers", "getNodeSnapshot"}

ThreadsUnchanged ==
    UNCHANGED << dvars, cvars, jvars, svars, rvars, avars, m_farmRunning,
                 m_farmError, m_config >>

\* Thread t enters function f; a lock_guard waits until the mutex is free.
Enter(t, f) ==
    /\ f \in LockingFunctions => m_mutex = "none"
    /\ m_mutex' = IF f \in LockingFunctions THEN t ELSE m_mutex
    /\ threadPc' = [threadPc EXCEPT ![t] = f]

\* Thread t returns from function f to `next`; a lock_guard is released.
Leave(t, f, next) ==
    /\ m_mutex' = IF f \in LockingFunctions THEN "none" ELSE m_mutex
    /\ threadPc' = [threadPc EXCEPT ![t] = next]

\* The view of the entries `nodes` that getNodeSnapshot's callers use.
SnapshotOf(nodes) ==
    [p \in Nodes |->
        IF p \in DOMAIN nodes
        THEN NodeView(nodes[p].isDead, nodes[p].reclaimEligible,
                      nodes[p].heartbeat.node_state,
                      nodes[p].heartbeat.render_state,
                      nodes[p].heartbeat.active_job)
        ELSE AbsentView]

\* What a copy of m_nodes can hold while detectStaleness runs in the other
\* thread: of each entry either the old or the new value.
RacingCopies(nodes) ==
    { [p \in DOMAIN nodes |-> IF p \in S THEN StalenessOf(nodes[p]) ELSE nodes[p]] :
        S \in SUBSET DOMAIN nodes }

\* threadFunc: a heartbeat is due.
HeartbeatThreadWrites ==
    /\ m_farmRunning[Self]
    /\ threadPc["heartbeat"] = "idle"
    /\ hbFile[Self].seq < MaxSeq
    /\ Enter("heartbeat", "writeHeartbeat")
    /\ UNCHANGED << hbFile, m_nodes, snapshot >>
    /\ ThreadsUnchanged

WriteHeartbeatReturns ==
    /\ threadPc["heartbeat"] = "writeHeartbeat"
    /\ \E w \in { writeHeartbeat(Self, hbFile[Self].seq + 1) } :
         /\ hbFile' = w.file
         /\ m_nodes' = [m_nodes EXCEPT ![Self] = w.nodes]
    /\ Leave("heartbeat", "writeHeartbeat", "idle")
    /\ UNCHANGED snapshot
    /\ ThreadsUnchanged

\* threadFunc: a scan is due; scanPeers(), detectStaleness() and
\* detectClockSkew() are called one after the other.
HeartbeatThreadScans ==
    /\ m_farmRunning[Self]
    /\ threadPc["heartbeat"] = "idle"
    /\ Enter("heartbeat", "scanPeers")
    /\ UNCHANGED << hbFile, m_nodes, snapshot >>
    /\ ThreadsUnchanged

ScanPeersReturns ==
    /\ threadPc["heartbeat"] = "scanPeers"
    /\ m_nodes' = [m_nodes EXCEPT ![Self] = scanPeers(Self, hbFile, @)]
    /\ Leave("heartbeat", "scanPeers", "detectStaleness")
    /\ UNCHANGED << hbFile, snapshot >>
    /\ ThreadsUnchanged

DetectStalenessReturns ==
    /\ threadPc["heartbeat"] = "detectStaleness"
    /\ \E seen \in { detectStaleness(m_nodes[Self]) } :
         /\ \A p \in DOMAIN seen : seen[p].staleCount <= MaxStaleCount
         /\ m_nodes' = [m_nodes EXCEPT ![Self] = seen]
    /\ Leave("heartbeat", "detectStaleness", "detectClockSkew")
    /\ UNCHANGED << hbFile, snapshot >>
    /\ ThreadsUnchanged

DetectClockSkewReturns ==
    /\ threadPc["heartbeat"] = "detectClockSkew"
    /\ Leave("heartbeat", "detectClockSkew", "idle")
    /\ UNCHANGED << hbFile, m_nodes, snapshot >>
    /\ ThreadsUnchanged

\* The main thread calls getNodeSnapshot.
MainTakesSnapshot ==
    /\ m_farmRunning[Self]
    /\ threadPc["main"] = "idle"
    /\ Enter("main", "getNodeSnapshot")
    /\ UNCHANGED << hbFile, m_nodes, snapshot >>
    /\ ThreadsUnchanged

GetNodeSnapshotReturns ==
    /\ threadPc["main"] = "getNodeSnapshot"
    /\ \E copy \in IF threadPc["heartbeat"] = "detectStaleness"
                   THEN RacingCopies(m_nodes[Self])
                   ELSE { m_nodes[Self] } :
         snapshot' = SnapshotOf(copy)
    /\ Leave("main", "getNodeSnapshot", "idle")
    /\ UNCHANGED << hbFile, m_nodes >>
    /\ ThreadsUnchanged

NextThreads ==
    \/ \E n \in Nodes : StartFarm(n)
    \/ \E n \in Workers : WriteHeartbeat(n)
    \/ HeartbeatThreadWrites
    \/ WriteHeartbeatReturns
    \/ HeartbeatThreadScans
    \/ ScanPeersReturns
    \/ DetectStalenessReturns
    \/ DetectClockSkewReturns
    \/ MainTakesSnapshot
    \/ GetNodeSnapshotReturns

SpecThreads == InitFarm /\ [][NextThreads]_vars

\* ------------------------------------------------------------------------
\* Properties of the heartbeat manager's mutex (SpecThreads)
\* ------------------------------------------------------------------------
\* C36: a thread that is inside a function reading or writing m_nodes holds
\* m_mutex, so getNodeSnapshot never runs while the other thread is inside
\* a function that modifies the map.
C36_PeerMapOnlyUnderMutex ==
    /\ \A t \in Threads : threadPc[t] \in PeerMapFunctions => m_mutex = t
    /\ ~(/\ threadPc["main"] = "getNodeSnapshot"
         /\ threadPc["heartbeat"] \in PeerMapFunctions)

\* A snapshot that shows a peer as no state of m_nodes ever had it.
TornSnapshotTaken ==
    /\ snapshot # << >>
    /\ threadPc["heartbeat"] = "detectClockSkew"
    /\ snapshot # SnapshotOf(m_nodes[Self])
    /\ \E p \in Workers : snapshot[p].isDead # SnapshotOf(m_nodes[Self])[p].isDead

\* ------------------------------------------------------------------------
\* Properties of the assignment map (Spec, SpecRecover)
\* ------------------------------------------------------------------------
\* Node n has an entry of m_assignments that names chunk i of job j.
MapNames(n, j, i) ==
    /\ n \in DOMAIN m_assignments
    /\ m_assignments[n].jobId = j
    /\ m_assignments[n].frame_start = m_dispatchTables[j][i].frame_start
    /\ m_assignments[n].frame_end = m_dispatchTables[j][i].frame_end

\* C37: in every state between two handlers (the end of an update(), also the
\* one that recovers, a manual control, a job-state hook) chunk i of job j is
\* assigned with assigned_to = n if and only if m_assignments has an entry
\* for n that names j and the chunk.
C37_TableAndMapAgree ==
    \A n \in Nodes : \A j \in DOMAIN m_dispatchTables :
       \A i \in 1..Len(m_dispatchTables[j]) :
          (/\ m_dispatchTables[j][i].state = "assigned"
           /\ m_dispatchTables[j][i].assigned_to = n)
          <=> MapNames(n, j, i)

\* ------------------------------------------------------------------------
\* Properties of late reports (Spec)
\* ------------------------------------------------------------------------
\* Node n holds the chunk [fs, fe] of job j: the table has it assigned to n.
HoldsChunk(n, j, fs, fe) ==
    /\ j \in DOMAIN m_dispatchTables
    /\ \E i \in 1..Len(m_dispatchTables[j]) :
          /\ m_dispatchTables[j][i].frame_start = fs
          /\ m_dispatchTables[j][i].frame_end = fe
          /\ m_dispatchTables[j][i].state = "assigned"
          /\ m_dispatchTables[j][i].assigned_to = n

\* Scheduler state r differs from the present one neither in a chunk nor in
\* the entry m_assignments has for n for another chunk of job j than [fs, fe].
LeavesUnchanged(r, n, j, fs, fe) ==
    /\ r.tables = m_dispatchTables
    /\ (/\ n \in DOMAIN m_assignments
        /\ m_assignments[n].jobId = j
        /\ << m_assignments[n].frame_start, m_assignments[n].frame_end >>
              # << fs, fe >>)
       => (n \in DOMAIN r.assign /\ r.assign[n] = m_assignments[n])

\* C38: a chunk_completed or chunk_failed report of a worker, and a local
\* completion, for a chunk the reporting node does not hold changes no chunk
\* and leaves the assignment the node has for another chunk of the job.
C38_OnlyTheHolderReports ==
    /\ \A e \in outstanding : \A type \in {"chunk_completed", "chunk_failed"} :
          (e.node \in Workers
             /\ ~HoldsChunk(e.node, e.jobId, e.frame_start, e.frame_end))
          => LeavesUnchanged(WorkerReportStep(DMState, ReportOf(e, type)),
                             e.node, e.jobId, e.frame_start, e.frame_end)
    /\ \A e \in outstanding : \A state \in {"completed", "failed", "abandoned"} :
          (e.node = Self
             /\ ~HoldsChunk(Self, e.jobId, e.frame_start, e.frame_end))
          => LeavesUnchanged(LocalCompletionStep(DMState, CompletionOf(e, state)),
                             Self, e.jobId, e.frame_start, e.frame_end)

\* ------------------------------------------------------------------------
\* Properties of an abort on a worker with queued assignments (SpecNode)
\* ------------------------------------------------------------------------
\* The RenderCoordinator of worker n when MonitorApp::update has handled the
\* renderer's message msg and the first k of the popped actions.
AfterActions(n, msg, k) ==
    HandleActions(AfterAgentMessage(World, n, msg, TRUE, 0), n,
                  SubSeq(m_actionQueue[n], 1, k), TRUE, 0).rc[n]

\* C40: when a worker has handled abort_chunk or stop_job for a job, the
\* update() that ends the same main-loop iteration starts no assignment of
\* that job that was in the dispatch queue when the command was handled.
C40_AbortedJobNotStartedFromQueue ==
    \A n \in Workers : \A msg \in NodeAgentMessages :
       \A k \in 1..Len(m_actionQueue[n]) :
          LET action == m_actionQueue[n][k]
              atAbort == AfterActions(n, msg, k)
              atUpdate == AfterActions(n, msg, Len(m_actionQueue[n]))
              r == RenderUpdate(atUpdate, TRUE)
          IN (/\ msg # "none" => m_activeRender[n] # NoRender
              /\ action.type \in {"abort_chunk", "stop_job"}
              /\ atUpdate.active = NoRender
              /\ r.active # NoRender)
             => ~(/\ r.active.jobId = action.jobId
                  /\ \E q \in 1..Len(atAbort.queue) : atAbort.queue[q] = r.active)

\* ------------------------------------------------------------------------
\* SpecAgent: a worker, its renderer and the pipe between them
\* ------------------------------------------------------------------------
AgentNode == "w1"

\* The commands of the coordinator that a poll of the worker's inbox finds:
\* assignments of the chunks of j1, and the abort of its render of j1.
AgentCommand(type, fs, fe) ==
    [type |-> type, fromNodeId |-> Self, msgId |-> << 0, Self >>, jobId |-> "j1",
     reason |-> "", frameStart |-> fs, frameEnd |-> fe]

AgentCommands ==
    { AgentCommand("assign_chunk", f, f) : f \in 1..2 }
        \cup { AgentCommand("abort_chunk", 0, 0) }

AgentBatches ==
    { << a >> : a \in AgentCommands }
        \cup { << a, b >> : a \in AgentCommands, b \in AgentCommands }

CommandsArrive ==
    /\ m_actionQueue[AgentNode] = << >>
    /\ dispatched < MaxArrivals
    /\ dispatched' = dispatched + 1
    /\ \E batch \in AgentBatches :
         m_actionQueue' = [m_actionQueue EXCEPT ![AgentNode] = batch]
    /\ UNCHANGED << m_dispatchTables, m_assignments, m_completionWritten,
                    m_dirtyTables, m_recovered, m_lastWrite, m_nodeActive,
                    dispatchJson, stateLog, jobs, manifest, now, outstanding,
                    controls, restarts, nFail, sysClock, inbox, processed,
                    sentIds, enqueued, polls, fvars, jvars, ovars >>

\* The renderer ends its task and writes the terminal message to the pipe;
\* the message names no task.
AgentReports ==
    \E type \in {"completed", "failed"} :
      /\ agentTask # 0
      /\ agentPipe' = Append(agentPipe, [type |-> type, task |-> agentTask])
      /\ agentTask' = 0
      /\ UNCHANGED << dvars, cvars, fvars, jvars, svars, rvars, tvars,
                      m_messageQueue, taskSeq, activeTask, endedBy >>

\* AgentSupervisor::ipcThreadFunc receives a message and pushes it to
\* m_messageQueue.
IpcThreadReceives ==
    /\ agentPipe # << >>
    /\ m_messageQueue' = Append(m_messageQueue, Head(agentPipe))
    /\ agentPipe' = Tail(agentPipe)
    /\ UNCHANGED << dvars, cvars, fvars, jvars, svars, rvars, tvars,
                    agentTask, taskSeq, activeTask, endedBy >>

\* AgentSupervisor::processMessages: every queued message goes to
\* handleAgentMessage; st.ended records which render a terminal message ended.
RECURSIVE processMessages(_, _, _, _, _)
processMessages(st, n, queue, coordKnown, gap) ==
    IF queue = << >> THEN st
    ELSE LET m == Head(queue)
             w2 == Rendered(st.w, n, handleAgentMessage(st.w.rc[n], m.type),
                            coordKnown, gap)
             ends == st.w.rc[n].active # NoRender /\ w2.rc[n].active = NoRender
         IN processMessages(
                [w |-> w2,
                 act |-> IF ends THEN 0 ELSE st.act,
                 ended |-> IF ends THEN st.ended \cup { << st.act, m.task >> }
                           ELSE st.ended],
                n, Tail(queue), coordKnown, gap)

\* One iteration of MonitorApp::update on the worker: processMessages, the
\* popped actions, RenderCoordinator::update, flushPendingCompletions, with
\* a live coordinator and the calls of sendCommand a millisecond apart.
\* sendAbort and sendTask reach the renderer at once.
AgentWorkerUpdate ==
    \E coordKnown \in {TRUE}, gap \in {1} :
      LET n == AgentNode
          s1 == processMessages([w |-> World, act |-> activeTask, ended |-> endedBy],
                                n, m_messageQueue, coordKnown, gap)
          w2 == HandleActions(s1.w, n, m_actionQueue[n], coordKnown, gap)
          aborted == s1.w.rc[n].active # NoRender /\ w2.rc[n].active = NoRender
          w3 == Rendered(w2, n, RenderUpdate(w2.rc[n], TRUE), coordKnown, gap)
          started == w2.rc[n].active = NoRender /\ w3.rc[n].active # NoRender
          w4 == flushPendingCompletions(w3, n, coordKnown, gap)
      IN /\ started => taskSeq < MaxTasks
         /\ WorldBecomes(w4)
         /\ m_actionQueue' = [m_actionQueue EXCEPT ![n] = << >>]
         /\ m_messageQueue' = << >>
         /\ endedBy' = s1.ended
         /\ taskSeq' = IF started THEN taskSeq + 1 ELSE taskSeq
         /\ activeTask' = IF started THEN taskSeq + 1
                          ELSE IF w3.rc[n].active = NoRender THEN 0 ELSE s1.act
         /\ agentTask' = IF started THEN taskSeq + 1
                         ELSE IF aborted THEN 0 ELSE agentTask
         /\ UNCHANGED << m_dispatchTables, m_assignments, m_completionWritten,
                         m_dirtyTables, m_recovered, m_lastWrite, m_nodeActive,
                         dispatchJson, stateLog, jobs, outstanding, dispatched,
                         controls, processed, pausedChunks, reassigned,
                         agentPipe, manifest, now, restarts, nFail, polls,
                         fvars, jvars, svars, tvars >>

NextAgent ==
    \/ CommandsArrive
    \/ AgentReports
    \/ IpcThreadReceives
    \/ AgentWorkerUpdate

SpecAgent == InitNode /\ [][NextAgent]_vars

\* ------------------------------------------------------------------------
\* Properties of the renderer's terminal messages (SpecAgent)
\* ------------------------------------------------------------------------
\* C39: a completed or failed message of the renderer ends only the render
\* whose task produced it.
C39_TerminalMessageEndsItsOwnRender ==
    \A e \in endedBy : e[1] = e[2]

\* ------------------------------------------------------------------------
\* Properties of the scheduler (Spec)
\* ------------------------------------------------------------------------
ChunkIds(tables) ==
    UNION { { << j, i >> : i \in 1..Len(tables[j]) } : j \in DOMAIN tables }

\* C1: a chunk that is completed in a dispatch table is still completed after
\* every step of the coordinator: after an update() that applies any late or
\* duplicate report or local completion or reclaims assignments, and after
\* pause, cancel, resume, reassign and retry.
C1_CompletedStaysCompleted ==
    [][\A j \in DOMAIN m_dispatchTables : \A i \in 1..Len(m_dispatchTables[j]) :
          m_dispatchTables[j][i].state = "completed"
          => /\ j \in DOMAIN m_dispatchTables'
             /\ m_dispatchTables'[j][i].state = "completed"]_vars

\* The frames of a chunk, and what it is for chunks to tile [fs, fe] in
\* pieces of cs frames.
Frames(c) == c.frame_start..c.frame_end

ChunksPartition(chunks, fs, fe, cs) ==
    /\ \A a, b \in 1..Len(chunks) :
          a # b => Frames(chunks[a]) \cap Frames(chunks[b]) = {}
    /\ UNION { Frames(chunks[a]) : a \in 1..Len(chunks) } = fs..fe
    /\ \A a \in 1..Len(chunks) :
          /\ chunks[a].frame_start <= chunks[a].frame_end
          /\ chunks[a].frame_end = Min(chunks[a].frame_start + cs - 1, fe)

\* C2: the chunks of every dispatch table whose manifest has
\* frame_start <= frame_end and chunk_size >= 1 are pairwise disjoint, cover
\* exactly [frame_start, frame_end], and each is [s, min(s + chunk_size - 1,
\* frame_end)]; computeChunks does the same on every input up to MaxFrame and
\* MaxChunkSize and returns no chunk when frame_start > frame_end.
C2_ChunksPartitionRange ==
    /\ \A j \in DOMAIN m_dispatchTables :
          (manifest[j].frame_start <= manifest[j].frame_end
             /\ manifest[j].chunk_size >= 1)
          => ChunksPartition(m_dispatchTables[j], manifest[j].frame_start,
                             manifest[j].frame_end, manifest[j].chunk_size)
    /\ \A fs \in 0..MaxFrame, fe \in 0..MaxFrame, cs \in 1..MaxChunkSize :
          IF fs > fe THEN computeChunks(fs, fe, cs) = << >>
          ELSE ChunksPartition(computeChunks(fs, fe, cs), fs, fe, cs)

\* A table of several chunks with a short last chunk, some of them already
\* through a report.
C2_Witness ==
    \E j \in DOMAIN m_dispatchTables :
       LET t == m_dispatchTables[j]
       IN /\ Len(t) >= 2
          /\ t[Len(t)].frame_end - t[Len(t)].frame_start + 1
                < manifest[j].chunk_size
          /\ \E a, b \in 1..Len(t) :
                t[a].state = "completed" /\ t[b].state = "failed"

\* C3: in every state between two handlers (the end of an update(), a manual
\* control, a job-state hook) no node is the assigned_to of more than one
\* assigned chunk, over all dispatch tables.
AssignedTo(n) ==
    { c \in ChunkIds(m_dispatchTables) :
        /\ m_dispatchTables[c[1]][c[2]].state = "assigned"
        /\ m_dispatchTables[c[1]][c[2]].assigned_to = n }

C3_OneAssignedChunkPerNode ==
    \A n \in Nodes : Cardinality(AssignedTo(n)) <= 1

\* C4: within one run of the coordinator the retry_count of a chunk never
\* decreases, and a failed chunk becomes pending only in a retryFailedChunk
\* step.
C4_RetryMonotoneFailedSticky ==
    [][\A j \in DOMAIN m_dispatchTables : \A i \in 1..Len(m_dispatchTables[j]) :
          j \in DOMAIN m_dispatchTables'
          => /\ m_dispatchTables'[j][i].retry_count
                  >= m_dispatchTables[j][i].retry_count
             /\ (/\ m_dispatchTables[j][i].state = "failed"
                 /\ m_dispatchTables'[j][i].state = "pending")
                => RetryFailedChunk]_vars

====
